---- MODULE Spec2Model ----
(***************************************************************************)
(* A model of the ifs-extractor catalog pipeline (src/parse_openapi.py):  *)
(* reference resolution, operation classification, aggregation, name      *)
(* synthesis, duplicate-name resolution, sorting and id assignment.       *)
(*                                                                         *)
(* Python strings are TLA+ strings; a character is a string of length 1.  *)
(* A Python value that may be None is a sequence of length at most 1:     *)
(* <<>> is None and <<v>> is the value v.                                  *)
(***************************************************************************)
EXTENDS Integers, Sequences, FiniteSets, TLC

VARIABLES
    pc,                \* position of the run: "start", "parsed", "generated", "written",
                       \* "indexed", "ref", "resolved"; of a batch run: "main",
                       \* "step1", "step1_parsed", "step1_generated", "step2", "done";
                       \* of a run of process_json.py: "pj_main", "pj_loop",
                       \* "pj_done", "pj_exit" (sys.exit(1)), "pj_raised"
    spec,              \* the loaded specification document (paths, servers)
    parsed,            \* the value parse_openapi_spec returned
    simplified,        \* the five top-level verb buckets of the catalog
    parent_to_nested,  \* the nested_entities dicts, one per parent, shared by reference
    ref_doc,           \* resolve_ref: the document
    ref,               \* resolve_ref: the pointer string
    ref_result,        \* resolve_ref: the returned fragment
    catalog_file,      \* the catalog file: None, or the JSON value written to it
    options_file,      \* the options (index) file: None, or the JSON value written to it
    data_dir,          \* generate.py: the files of data/, name -> content
    parsed_data_dir,   \* the files of parsed_data/, name -> content
    options_dir,       \* the files of options/, name -> content
    read_only,         \* the <<directory, name>> paths that cannot be opened for writing
    todo,              \* the files the running loop has not finished, first the current one
    parsed_files,      \* step1_parse_data: parsed_files
    options_files,     \* step2_generate_options: options_files
    log                \* the lines printed per file: Parsing, ->, ERROR, Processing,
                       \* Updated, Created, Total IDs

\* the state of a batch run of generate.py
batch_vars == <<data_dir, parsed_data_dir, options_dir, read_only, todo,
                parsed_files, options_files, log>>

vars == <<pc, spec, parsed, simplified, parent_to_nested, ref_doc, ref, ref_result,
          catalog_file, options_file, batch_vars>>

-----------------------------------------------------------------------------
(* Python's str operations, on ASCII text.                                 *)

\* the characters of codes 32 to 95, in code order
ASCIILow == " !\"#$%&'()*+,-./0123456789:;<=>?@ABCDEFGHIJKLMNOPQRSTUVWXYZ[\\]^_"

\* the characters of codes 97 to 126, in code order
ASCIIHigh == "abcdefghijklmnopqrstuvwxyz{|}~"

Char(s, i) == SubSeq(s, i, i)

CharsOf(s) == {Char(s, i) : i \in 1..Len(s)}

\* ord(c)
OrdTable == [c \in CharsOf(ASCIILow) \cup CharsOf(ASCIIHigh) |->
                IF c \in CharsOf(ASCIILow)
                THEN 31 + (CHOOSE i \in 1..Len(ASCIILow) : Char(ASCIILow, i) = c)
                ELSE 96 + (CHOOSE i \in 1..Len(ASCIIHigh) : Char(ASCIIHigh, i) = c)]

Ord(c) == OrdTable[c]

\* the regular expression class [A-Z]
UpperCase == {c \in CharsOf(ASCIILow) : Ord("A") <= Ord(c) /\ Ord(c) <= Ord("Z")}

\* str.lower() of one character
LowerChar(c) == IF c \in UpperCase THEN Char(ASCIIHigh, Ord(c) - Ord("A") + 1) ELSE c

RECURSIVE Lower(_)
Lower(s) == IF s = "" THEN "" ELSE LowerChar(Head(s)) \o Lower(Tail(s))

\* s < t for Python strings: lexicographic by code point
RECURSIVE StrLess(_, _)
StrLess(s, t) ==
    IF t = "" THEN FALSE
    ELSE IF s = "" THEN TRUE
    ELSE IF Head(s) = Head(t) THEN StrLess(Tail(s), Tail(t))
    ELSE Ord(Head(s)) < Ord(Head(t))

StartsWith(s, p) == Len(p) <= Len(s) /\ SubSeq(s, 1, Len(p)) = p

EndsWith(s, p) == Len(p) <= Len(s) /\ SubSeq(s, Len(s) - Len(p) + 1, Len(s)) = p

\* the places where p occurs in s
Occurrences(s, p) == {i \in 1..(Len(s) - Len(p) + 1) : SubSeq(s, i, i + Len(p) - 1) = p}

\* p in s
Contains(s, p) == Occurrences(s, p) # {}

\* s.find(p) + 1: the first place where p occurs in s, 0 when there is none
Find(s, p) ==
    LET occ == Occurrences(s, p)
    IN  IF occ = {} THEN 0 ELSE CHOOSE i \in occ : \A j \in occ : i <= j

\* s.split(sep)
RECURSIVE Split(_, _)
Split(s, sep) ==
    LET i == Find(s, sep)
    IN  IF i = 0 THEN <<s>>
        ELSE <<SubSeq(s, 1, i - 1)>> \o Split(SubSeq(s, i + Len(sep), Len(s)), sep)

\* seq[-1]
Last(seq) == seq[Len(seq)]

\* s.lstrip(c)
RECURSIVE LStrip(_, _)
LStrip(s, c) == IF s # "" /\ Head(s) = c THEN LStrip(Tail(s), c) ELSE s

\* re.split on the class of the opening parenthesis and the slash, element 0:
\* the text before the first of them
RECURSIVE BeforeParenOrSlash(_)
BeforeParenOrSlash(s) ==
    IF s = "" \/ Head(s) \in {"(", "/"} THEN ""
    ELSE Head(s) \o BeforeParenOrSlash(Tail(s))

\* None and the values that may be None
None == <<>>
Some(v) == <<v>>

\* Python truthiness of a string that may be None
Truthy(opt) == opt # None /\ opt[1] # ""

-----------------------------------------------------------------------------
(* The HTTP verbs.                                                         *)

\* the order in which parse_openapi_spec visits the methods of a path
ParseMethods == <<"get", "post", "put", "patch", "delete">>

\* the order of the verb buckets of the catalog
Verbs == <<"GET", "POST", "PATCH", "PUT", "DELETE">>

VerbSet == {Verbs[i] : i \in 1..Len(Verbs)}

\* method.upper()
Upper(method) ==
    CASE method = "get" -> "GET"
      [] method = "post" -> "POST"
      [] method = "put" -> "PUT"
      [] method = "patch" -> "PATCH"
      [] method = "delete" -> "DELETE"

-----------------------------------------------------------------------------
(* Operation Classifier.                                                   *)

\* identify_entity_type(path)
identify_entity_type(path) ==
    LET parts == Split(path, "/")
        is_action == Contains(path, "/IfsApp.") /\ ~EndsWith(path, ")")
        is_function == Contains(path, "(") /\ EndsWith(path, ")") /\ Contains(path, "/IfsApp.")
        \* the segments, counted from 1 after the leading empty one, that have
        \* a parameter list and are not the last segment
        inner == {i \in 2..Len(parts) : Contains(parts[i], "(") /\ i - 1 < Len(parts) - 1}
        is_nested == Len(parts) > 2 /\ inner # {}
        nested_name == IF is_nested THEN Split(Last(parts), "(")[1] ELSE ""
        main_part == IF Len(parts) > 1 THEN parts[2] ELSE ""
    IN  [is_reference |-> StartsWith(path, "/Reference_"),
         is_action |-> is_action,
         is_function |-> is_function,
         is_nested |-> is_nested,
         parent_entity |-> IF is_nested THEN Some(Split(parts[2], "(")[1]) ELSE None,
         entity_name |-> IF nested_name # "" THEN nested_name ELSE Split(main_part, "(")[1],
         action_name |-> IF is_action THEN Some(Last(Split(path, "/IfsApp."))) ELSE None]

-----------------------------------------------------------------------------
(* Parameter Extractor and Spec Aggregator.  A Python dict is a sequence   *)
(* of records in insertion order, each with its key in the field key.      *)

\* extract_parameters(parameters): the parameters declared in the path
\* (the only bucket the catalog names and ids depend on)
extract_parameters(parameters) ==
    LET InPath(p) == p.in = "path"
        Info(p) == [name |-> p.name]
        sel == SelectSeq(parameters, InPath)
    IN  [path_params |-> [i \in 1..Len(sel) |-> Info(sel[i])]]

\* key in d
HasKey(d, key) == \E i \in 1..Len(d) : d[i].key = key

\* d[key], for a key of d
Lookup(d, key) == d[CHOOSE i \in 1..Len(d) : d[i].key = key]

\* if key not in d: d[key] = fresh; d[key]['apis'].append(api_entry)
AppendApi(d, fresh, api_entry) ==
    IF HasKey(d, fresh.key)
    THEN [i \in 1..Len(d) |->
            IF d[i].key = fresh.key THEN [d[i] EXCEPT !.apis = Append(@, api_entry)] ELSE d[i]]
    ELSE Append(d, [fresh EXCEPT !.apis = <<api_entry>>])

\* a slip of the elif chain: the nested test tried before the reference test
CategoryOfNestedFirst(entity_info) ==
    IF entity_info.is_action THEN "actions"
    ELSE IF entity_info.is_function THEN "functions"
    ELSE IF entity_info.is_nested THEN "nested_entities"
    ELSE IF entity_info.is_reference THEN "reference_entities"
    ELSE "entities"

\* the category map the if/elif chain of parse_openapi_spec files an operation into
CategoryOf(entity_info) ==
    IF entity_info.is_action THEN "actions"
    ELSE IF entity_info.is_function THEN "functions"
    ELSE IF entity_info.is_reference THEN "reference_entities"
    ELSE IF entity_info.is_nested THEN "nested_entities"
    ELSE "entities"

\* the body of the method loop of parse_openapi_spec for one declared method
FileOperation(result, path_item, method) ==
    LET path == path_item.path
        entity_info == identify_entity_type(path)
        operation == path_item.methods[method]
        api_entry == [path |-> path,
                      method |-> Upper(method),
                      parameters |-> extract_parameters(path_item.parameters \o operation.parameters)]
        counted == [result EXCEPT !.summary.total_endpoints = @ + 1,
                                  !.summary.methods_count[Upper(method)] = @ + 1]
        category == CategoryOf(entity_info)
    IN  CASE category = "actions" ->
               [counted EXCEPT !.actions = AppendApi(@, [key |-> entity_info.entity_name, apis |-> <<>>], api_entry),
                               !.summary.total_actions = @ + 1]
          [] category = "functions" ->
               [counted EXCEPT !.functions = AppendApi(@, [key |-> entity_info.entity_name, apis |-> <<>>], api_entry),
                               !.summary.total_functions = @ + 1]
          [] category = "reference_entities" ->
               [counted EXCEPT !.reference_entities =
                    AppendApi(@, [key |-> entity_info.entity_name,
                                  name |-> entity_info.entity_name,
                                  apis |-> <<>>], api_entry)]
          [] category = "nested_entities" ->
               [counted EXCEPT !.nested_entities =
                    AppendApi(@, [key |-> entity_info.parent_entity[1] \o "/" \o entity_info.entity_name,
                                  parent_entity |-> entity_info.parent_entity[1],
                                  nested_entity |-> entity_info.entity_name,
                                  full_path_pattern |-> path,
                                  apis |-> <<>>], api_entry)]
          [] OTHER ->
               [counted EXCEPT !.entities =
                    AppendApi(@, [key |-> entity_info.entity_name,
                                  name |-> entity_info.entity_name,
                                  apis |-> <<>>], api_entry)]

\* the method loop for one path: for method in get, post, put, patch, delete
RECURSIVE FilePath(_, _, _)
FilePath(result, path_item, i) ==
    IF i > Len(ParseMethods) THEN result
    ELSE IF ParseMethods[i] \notin DOMAIN path_item.methods
         THEN FilePath(result, path_item, i + 1)
         ELSE FilePath(FileOperation(result, path_item, ParseMethods[i]), path_item, i + 1)

\* the path loop: for path, path_item in paths.items()
RECURSIVE FilePaths(_, _)
FilePaths(result, paths) ==
    IF paths = <<>> THEN result
    ELSE FilePaths(FilePath(result, Head(paths), 1), Tail(paths))

\* parse_openapi_spec, after the document is loaded
parse_openapi_spec(data) ==
    LET initial == [api_info |-> [title |-> IF data.info = None \/ data.info[1].title = None
                                            THEN "" ELSE data.info[1].title[1],
                                  base_url |-> IF data.servers[1].url = None THEN ""
                                                ELSE data.servers[1].url[1]],
                    entities |-> <<>>,
                    nested_entities |-> <<>>,
                    reference_entities |-> <<>>,
                    actions |-> <<>>,
                    functions |-> <<>>,
                    summary |-> [total_endpoints |-> 0,
                                 total_entities |-> 0,
                                 total_nested_entities |-> 0,
                                 total_reference_entities |-> 0,
                                 total_actions |-> 0,
                                 total_functions |-> 0,
                                 methods_count |-> [v \in VerbSet |-> 0]]]
        result == FilePaths(initial, data.paths)
    IN  [result EXCEPT !.summary.total_entities = Len(result.entities),
                       !.summary.total_nested_entities = Len(result.nested_entities),
                       !.summary.total_reference_entities = Len(result.reference_entities)]

-----------------------------------------------------------------------------
(* Name Synthesizer (the helpers nested in generate_simplified_output).    *)

\* the characters after the first, a space inserted before every capital
RECURSIVE SpaceBeforeCapitals(_)
SpaceBeforeCapitals(s) ==
    IF s = "" THEN ""
    ELSE (IF Head(s) \in UpperCase THEN " " ELSE "") \o Head(s) \o SpaceBeforeCapitals(Tail(s))

\* camel_to_readable(name): re.sub of the empty match that is not at the
\* start and is followed by a capital, by a space
camel_to_readable(name) ==
    IF name = "" THEN "" ELSE Head(name) \o SpaceBeforeCapitals(Tail(name))

\* extract_action_name_from_path(path)
extract_action_name_from_path(path) ==
    IF ~Contains(path, "/IfsApp.") THEN None
    ELSE LET after == Last(Split(path, "/IfsApp."))
             action_part == IF Contains(after, "(") THEN Split(after, "(")[1] ELSE after
         IN  IF Contains(action_part, "_") THEN Some(Last(Split(action_part, "_"))) ELSE None

\* a slip of extract_entity_name_from_path: the Set suffix of the collection
\* dropped from the entity name
EntityNameWithoutSet(path) ==
    LET stripped == LStrip(path, "/")
        name == IF Contains(stripped, "(") THEN Split(stripped, "(")[1]
                ELSE IF Contains(stripped, "/") THEN Split(stripped, "/")[1]
                ELSE stripped
    IN  IF EndsWith(name, "Set") THEN SubSeq(name, 1, Len(name) - 3) ELSE name

\* extract_entity_name_from_path(path)
extract_entity_name_from_path(path) ==
    LET stripped == LStrip(path, "/")
    IN  IF Contains(stripped, "(") THEN Split(stripped, "(")[1]
        ELSE IF Contains(stripped, "/") THEN Split(stripped, "/")[1]
        ELSE stripped

\* extract_nested_resource_from_path(path)
extract_nested_resource_from_path(path) ==
    LET stripped == LStrip(path, "/")
        after_params == Last(Split(stripped, ")"))
        nested_part == Tail(after_params)
        first_part == IF Contains(nested_part, "/") THEN Split(nested_part, "/")[1] ELSE nested_part
    IN  IF Contains(stripped, "(") /\ Contains(stripped, ")") /\ StartsWith(after_params, "/")
        THEN IF StartsWith(nested_part, "IfsApp.") THEN None
             ELSE IF first_part # "" THEN Some(first_part) ELSE None
        ELSE None

\* get_primary_key(path_params)
get_primary_key(path_params) ==
    IF path_params = <<>> THEN None ELSE Some(path_params[1].key)

\* a slip of generate_api_name: POST given the key of the item like PATCH
GenerateApiNamePostByKey(method, entity_name, path_params, action_name, nested_resource) ==
    LET has_params == path_params # <<>>
        primary_key == IF has_params THEN get_primary_key(path_params)[1] ELSE ""
        readable_entity == IF Truthy(nested_resource)
                           THEN camel_to_readable(entity_name) \o " " \o camel_to_readable(nested_resource[1])
                           ELSE camel_to_readable(entity_name)
        by_key == IF has_params THEN " by " \o primary_key ELSE ""
    IN  IF Truthy(action_name)
        THEN camel_to_readable(action_name[1]) \o by_key
        ELSE CASE method = "GET" ->
                    IF has_params THEN "Get " \o readable_entity \o by_key
                    ELSE "List " \o readable_entity
               [] method = "POST" -> "Create " \o readable_entity \o by_key
               [] method = "PATCH" -> "Update " \o readable_entity \o by_key
               [] method = "PUT" -> "Replace " \o readable_entity \o by_key
               [] method = "DELETE" -> "Delete " \o readable_entity \o by_key
               [] OTHER -> readable_entity

\* generate_api_name(method, entity_name, path_params, action_name, nested_resource);
\* path_params is the list of parameter entries, <<>> standing for None
generate_api_name(method, entity_name, path_params, action_name, nested_resource) ==
    LET has_params == path_params # <<>>
        primary_key == IF has_params THEN get_primary_key(path_params)[1] ELSE ""
        readable_entity == IF Truthy(nested_resource)
                           THEN camel_to_readable(entity_name) \o " " \o camel_to_readable(nested_resource[1])
                           ELSE camel_to_readable(entity_name)
        by_key == IF has_params THEN " by " \o primary_key ELSE ""
    IN  IF Truthy(action_name)
        THEN camel_to_readable(action_name[1]) \o by_key
        ELSE CASE method = "GET" ->
                    IF has_params THEN "Get " \o readable_entity \o by_key
                    ELSE "List " \o readable_entity
               [] method = "POST" -> "Create " \o readable_entity
               [] method = "PATCH" -> "Update " \o readable_entity \o by_key
               [] method = "PUT" -> "Replace " \o readable_entity \o by_key
               [] method = "DELETE" -> "Delete " \o readable_entity \o by_key
               [] OTHER -> readable_entity

\* path_params_with_types: the entries built from the path parameters of an
\* operation record (their key; <<>> stands for None, which the code
\* yields when there is no path parameter)
PathParamsWithTypes(api) ==
    LET path_params_list == api.parameters.path_params
    IN  [i \in 1..Len(path_params_list) |-> [key |-> path_params_list[i].name]]

\* process_api(api, include_nested, nested_list): nested_list is None or
\* the key of the parent whose nested_entities dict the entry will share;
\* the id 0 stands for None
process_api(base_url, api, include_nested, nested_list) ==
    LET path == api.path
        name == generate_api_name(api.method,
                                  extract_entity_name_from_path(path),
                                  PathParamsWithTypes(api),
                                  extract_action_name_from_path(path),
                                  extract_nested_resource_from_path(path))
    IN  [id |-> 0,
         name |-> name,
         method |-> api.method,
         url |-> base_url \o path,
         path_params |-> PathParamsWithTypes(api),
         nested_entities |-> IF include_nested /\ nested_list # None THEN nested_list ELSE None]

-----------------------------------------------------------------------------
(* Catalog Projector: generate_simplified_output.                          *)

\* the five empty verb lists
EmptyBuckets == [v \in VerbSet |-> <<>>]

\* a slip of nested_api_info: the entry of a nested operation given the
\* nested_entities of its parent in turn
NestedApiInfoWithChildren(base_url, nested_data, api) ==
    [id |-> 0,
     name |-> generate_api_name(api.method,
                                nested_data.nested_entity,
                                PathParamsWithTypes(api),
                                extract_action_name_from_path(api.path),
                                extract_nested_resource_from_path(api.path)),
     method |-> api.method,
     url |-> base_url \o api.path,
     path_params |-> PathParamsWithTypes(api),
     nested_entities |-> Some(nested_data.parent_entity)]

\* nested_api_info: the catalog entry of one operation of a nested entity
NestedApiInfo(base_url, nested_data, api) ==
    [id |-> 0,
     name |-> generate_api_name(api.method,
                                nested_data.nested_entity,
                                PathParamsWithTypes(api),
                                extract_action_name_from_path(api.path),
                                extract_nested_resource_from_path(api.path)),
     method |-> api.method,
     url |-> base_url \o api.path,
     path_params |-> PathParamsWithTypes(api),
     nested_entities |-> None]

\* for api in nested_data['apis']: parent_to_nested[parent][method].append(nested_api_info)
RECURSIVE AddNestedApis(_, _, _, _)
AddNestedApis(p2n, base_url, nested_data, apis) ==
    IF apis = <<>> THEN p2n
    ELSE LET api == Head(apis)
             info == NestedApiInfo(base_url, nested_data, api)
             added == [i \in 1..Len(p2n) |->
                         IF p2n[i].key = nested_data.parent_entity /\ api.method \in VerbSet
                         THEN [p2n[i] EXCEPT !.buckets[api.method] = Append(@, info)]
                         ELSE p2n[i]]
         IN  AddNestedApis(added, base_url, nested_data, Tail(apis))

\* for key, nested_data in nested_entities_data.items()
RECURSIVE BuildParentToNested(_, _, _)
BuildParentToNested(p2n, base_url, nested_entities_data) ==
    IF nested_entities_data = <<>> THEN p2n
    ELSE LET nested_data == Head(nested_entities_data)
             with_parent == IF HasKey(p2n, nested_data.parent_entity) THEN p2n
                            ELSE Append(p2n, [key |-> nested_data.parent_entity,
                                              buckets |-> EmptyBuckets])
         IN  BuildParentToNested(AddNestedApis(with_parent, base_url, nested_data, nested_data.apis),
                                 base_url, Tail(nested_entities_data))

\* a slip of the lookup: the dict of the first recorded parent handed to
\* every primary entity
NestedForEntityAnyParent(p2n, entity_name) ==
    IF p2n # <<>> THEN Some(p2n[1].key) ELSE None

\* nested_for_entity: the shared nested_entities dict of a primary entity
\* (its parent key), None when the entity has none or all its lists are empty
NestedForEntity(p2n, entity_name) ==
    IF HasKey(p2n, entity_name)
       /\ \E v \in VerbSet : Len(Lookup(p2n, entity_name).buckets[v]) > 0
    THEN Some(entity_name)
    ELSE None

\* the concatenation of a sequence of sequences
RECURSIVE Concat(_)
Concat(seqs) == IF seqs = <<>> THEN <<>> ELSE Head(seqs) \o Concat(Tail(seqs))

\* the entries of the primary entities, in the order the code appends them
EntityEntries(base_url, entities_data, p2n) ==
    Concat([e \in 1..Len(entities_data) |->
              [i \in 1..Len(entities_data[e].apis) |->
                 process_api(base_url, entities_data[e].apis[i], TRUE,
                             NestedForEntity(p2n, entities_data[e].key))]])

\* the entries of reference entities, actions or functions: process_api(api)
PlainEntries(base_url, source) ==
    Concat([e \in 1..Len(source) |->
              [i \in 1..Len(source[e].apis) |->
                 process_api(base_url, source[e].apis[i], FALSE, None)]])

\* a slip of the collecting loops: the nested entries flattened into the
\* top-level verb lists as well
CollectTopLevelFlattened(parsed_data, p2n) ==
    LET base_url == parsed_data.api_info.base_url
        all == EntityEntries(base_url, parsed_data.entities, p2n)
               \o PlainEntries(base_url, parsed_data.reference_entities)
               \o PlainEntries(base_url, parsed_data.actions)
               \o PlainEntries(base_url, parsed_data.functions)
               \o Concat([k \in 1..Len(p2n) |->
                             Concat([vi \in 1..Len(Verbs) |-> p2n[k].buckets[Verbs[vi]]])])
    IN  [v \in VerbSet |-> LET HasVerb(api) == api.method = v IN SelectSeq(all, HasVerb)]

\* the top-level verb lists after the three collecting loops
CollectTopLevel(parsed_data, p2n) ==
    LET base_url == parsed_data.api_info.base_url
        all == EntityEntries(base_url, parsed_data.entities, p2n)
               \o PlainEntries(base_url, parsed_data.reference_entities)
               \o PlainEntries(base_url, parsed_data.actions)
               \o PlainEntries(base_url, parsed_data.functions)
    IN  [v \in VerbSet |-> LET HasVerb(api) == api.method = v IN SelectSeq(all, HasVerb)]

-----------------------------------------------------------------------------
(* Duplicate Resolver: resolve_duplicate_names.                            *)

\* the names Counter counts more than once
Duplicates(apis) ==
    {apis[i].name : i \in {i \in 1..Len(apis) : \E j \in 1..Len(apis) : j # i /\ apis[j].name = apis[i].name}}

\* readable_prefix: the readable entity prefix taken from the url of an entry
ReadablePrefix(url) ==
    LET path_part == IF Contains(url, ".svc/") THEN Last(Split(url, ".svc/")) ELSE url
        entity_prefix == BeforeParenOrSlash(path_part)
        stripped == IF EndsWith(entity_prefix, "Set")
                    THEN SubSeq(entity_prefix, 1, Len(entity_prefix) - 3)
                    ELSE entity_prefix
    IN  camel_to_readable(stripped)

\* a slip of the first pass: of the entries that share a name, the first
\* keeps it and only the later ones get the entity prefix
FirstPassExtras(apis) ==
    [i \in 1..Len(apis) |->
       IF \E j \in 1..(i - 1) : apis[j].name = apis[i].name
       THEN [apis[i] EXCEPT !.name = ReadablePrefix(apis[i].url) \o " - " \o @]
       ELSE apis[i]]

\* a slip of the first pass: once a name is duplicated, every entry of the
\* list gets the entity prefix
FirstPassEveryEntry(apis) ==
    [i \in 1..Len(apis) |->
       [apis[i] EXCEPT !.name = ReadablePrefix(apis[i].url) \o " - " \o @]]

\* first pass: every entry whose name is duplicated gets the entity prefix
FirstPass(apis) ==
    LET duplicates == Duplicates(apis)
    IN  [i \in 1..Len(apis) |->
           IF apis[i].name \in duplicates
           THEN [apis[i] EXCEPT !.name = ReadablePrefix(apis[i].url) \o " - " \o @]
           ELSE apis[i]]

\* a slip of the second pass: the first path parameter is appended
SecondPassFirstParam(apis) ==
    LET remaining_duplicates == Duplicates(apis)
    IN  [i \in 1..Len(apis) |->
           IF apis[i].name \in remaining_duplicates
              /\ Len(apis[i].path_params) > 1
              /\ apis[i].path_params[1].key # ""
           THEN [apis[i] EXCEPT !.name = @ \o ", " \o apis[i].path_params[1].key]
           ELSE apis[i]]

\* second pass: an entry whose name is still duplicated gets its second
\* path parameter appended, when it has one
SecondPass(apis) ==
    LET remaining_duplicates == Duplicates(apis)
    IN  [i \in 1..Len(apis) |->
           IF apis[i].name \in remaining_duplicates
              /\ Len(apis[i].path_params) > 1
              /\ apis[i].path_params[2].key # ""
           THEN [apis[i] EXCEPT !.name = @ \o ", " \o apis[i].path_params[2].key]
           ELSE apis[i]]

\* resolve_duplicate_names(apis)
resolve_duplicate_names(apis) ==
    IF Duplicates(apis) = {} THEN apis ELSE SecondPass(FirstPass(apis))

-----------------------------------------------------------------------------
(* Sorting: sorted(apis, key=lambda x: x['name'].lower()), a stable sort.  *)

\* x placed after the last entry whose key is not greater than the key of x
RECURSIVE InsertByName(_, _)
InsertByName(sorted, x) ==
    IF sorted = <<>> THEN <<x>>
    ELSE IF StrLess(Lower(x.name), Lower(Head(sorted).name))
         THEN <<x>> \o sorted
         ELSE <<Head(sorted)>> \o InsertByName(Tail(sorted), x)

RECURSIVE SortFrom(_, _)
SortFrom(sorted, rest) ==
    IF rest = <<>> THEN sorted ELSE SortFrom(InsertByName(sorted, Head(rest)), Tail(rest))

SortByName(apis) == SortFrom(<<>>, apis)

-----------------------------------------------------------------------------
(* Resolution and sorting of the buckets, then id assignment.  The entries *)
(* of one primary entity all hold the same nested_entities dict, so what   *)
(* is done to the nested lists through one entry is seen through all.      *)

\* for method in Verbs: simplified[method] = resolve_duplicate_names(simplified[method])
ResolveTopLevel(simp) == [v \in VerbSet |-> resolve_duplicate_names(simp[v])]

\* for method in Verbs: simplified[method] = sorted(simplified[method], key=...)
SortTopLevel(simp) == [v \in VerbSet |-> SortByName(simp[v])]

\* for nested_method in Verbs: the non-empty lists of the dict of parent
\* are resolved, then sorted
ResolveSortNested(p2n, parent) ==
    [i \in 1..Len(p2n) |->
       IF p2n[i].key = parent
       THEN [p2n[i] EXCEPT !.buckets =
               [v \in VerbSet |->
                  IF Len(p2n[i].buckets[v]) > 0
                  THEN SortByName(resolve_duplicate_names(p2n[i].buckets[v]))
                  ELSE p2n[i].buckets[v]]]
       ELSE p2n[i]]

\* for api in simplified[method]: if api.get('nested_entities'): ...
RECURSIVE ResolveSortNestedOf(_, _)
ResolveSortNestedOf(p2n, apis) ==
    IF apis = <<>> THEN p2n
    ELSE ResolveSortNestedOf(IF Head(apis).nested_entities # None
                             THEN ResolveSortNested(p2n, Head(apis).nested_entities[1])
                             ELSE p2n,
                             Tail(apis))

\* the top-level entries in the order the loops visit them
InVisitOrder(simp) == Concat([vi \in 1..Len(Verbs) |-> simp[Verbs[vi]]])

\* the ids of the nested lists of one top-level entry, from global_id on
RECURSIVE AssignNestedIds(_, _, _, _)
AssignNestedIds(p2n, parent, vi, global_id) ==
    IF vi > Len(Verbs) THEN [parent_to_nested |-> p2n, global_id |-> global_id]
    ELSE LET v == Verbs[vi]
             n == Len(Lookup(p2n, parent).buckets[v])
             stamped == [i \in 1..Len(p2n) |->
                           IF p2n[i].key = parent
                           THEN [p2n[i] EXCEPT !.buckets[v] =
                                   [j \in 1..n |-> [p2n[i].buckets[v][j] EXCEPT !.id = global_id + j - 1]]]
                           ELSE p2n[i]]
         IN  AssignNestedIds(stamped, parent, vi + 1, global_id + n)

\* the id loop: entry i of verb vi gets global_id, then its nested entries
\* get the ids that follow
RECURSIVE AssignIds(_, _, _, _, _)
AssignIds(simp, p2n, vi, i, global_id) ==
    IF vi > Len(Verbs)
    THEN [simplified |-> simp, parent_to_nested |-> p2n, global_id |-> global_id]
    ELSE IF i > Len(simp[Verbs[vi]]) THEN AssignIds(simp, p2n, vi + 1, 1, global_id)
    ELSE LET api == simp[Verbs[vi]][i]
             stamped == [simp EXCEPT ![Verbs[vi]][i].id = global_id]
             nested == IF api.nested_entities # None
                       THEN AssignNestedIds(p2n, api.nested_entities[1], 1, global_id + 1)
                       ELSE [parent_to_nested |-> p2n, global_id |-> global_id + 1]
         IN  AssignIds(stamped, nested.parent_to_nested, vi, i + 1, nested.global_id)

\* a slip of the order of the stages: the top-level lists sorted first and
\* their duplicate names resolved afterwards
SortedThenResolved(parsed_data) ==
    LET p2n == BuildParentToNested(<<>>, parsed_data.api_info.base_url, parsed_data.nested_entities)
        resolved == ResolveTopLevel(SortTopLevel(CollectTopLevel(parsed_data, p2n)))
    IN  [simplified |-> resolved,
         parent_to_nested |-> ResolveSortNestedOf(p2n, InVisitOrder(resolved))]

\* the catalog before the ids are assigned: collected, resolved and sorted
ResolvedAndSorted(parsed_data) ==
    LET p2n == BuildParentToNested(<<>>, parsed_data.api_info.base_url, parsed_data.nested_entities)
        sorted == SortTopLevel(ResolveTopLevel(CollectTopLevel(parsed_data, p2n)))
    IN  [simplified |-> sorted,
         parent_to_nested |-> ResolveSortNestedOf(p2n, InVisitOrder(sorted))]

\* the id loop run on the resolved and sorted catalog, global_id = 1
AssignAllIds(ready) == AssignIds(ready.simplified, ready.parent_to_nested, 1, 1, 1)

\* F(x), with x evaluated once before F is applied
Strict(F(_), x) == CHOOSE y \in {F(v) : v \in {x}} : TRUE

\* simplified: the api_info of the catalog and its five verb lists
WithApiInfo(api_info, buckets) ==
    [api_info |-> api_info,
     GET |-> buckets["GET"], POST |-> buckets["POST"], PATCH |-> buckets["PATCH"],
     PUT |-> buckets["PUT"], DELETE |-> buckets["DELETE"]]

\* generate_simplified_output(parsed_data)
generate_simplified_output(parsed_data) ==
    LET api_info == [title |-> parsed_data.api_info.title,
                     base_url |-> parsed_data.api_info.base_url]
    IN  CHOOSE out \in {[simplified |-> WithApiInfo(api_info, done.simplified),
                         parent_to_nested |-> done.parent_to_nested] :
                           done \in {Strict(AssignAllIds, ResolvedAndSorted(parsed_data))}} : TRUE

\* api['nested_entities'] of a catalog entry, as json.dump writes it: the
\* five lists of the shared dict, all empty when the entry has no such key
NestedOf(p2n, api) ==
    IF api.nested_entities = None THEN EmptyBuckets
    ELSE Lookup(p2n, api.nested_entities[1]).buckets

-----------------------------------------------------------------------------
(* Options Indexer: process_options of src/generate.py and process_file   *)
(* of src/process_json.py, on the JSON value read from the catalog file.  *)

\* the nested verbs in alphabetical order
NestedIndexVerbsSorted == <<"DELETE", "GET", "PATCH", "POST", "PUT">>

\* for nested_method in ["GET", "POST", "PATCH", "PUT", "DELETE"]
NestedIndexVerbs == <<"GET", "POST", "PATCH", "PUT", "DELETE">>

\* for method in ["GET", "POST", "PATCH", "PUT", "DELETE"], at root level
RootIndexVerbs == <<"GET", "POST", "PATCH", "PUT", "DELETE">>

RECURSIVE process_array(_, _, _)
RECURSIVE ProcessItems(_, _, _, _, _)
RECURSIVE ProcessNested(_, _, _, _)

\* the loop over nested_method of one item, from verb vi on: the lists of
\* item['nested_entities'] that are not empty are processed in turn and
\* their triples appended to entity_data['nested_entities']
ProcessNested(nested_entities, vi, id_counter, triples) ==
    IF vi > Len(NestedIndexVerbs)
    THEN [nested_entities |-> nested_entities, id_counter |-> id_counter, triples |-> triples]
    ELSE LET nested_method == NestedIndexVerbs[vi]
         IN  IF Len(nested_entities[nested_method]) = 0
             THEN ProcessNested(nested_entities, vi + 1, id_counter, triples)
             ELSE \* nested_info = process_array(item["nested_entities"][nested_method], nested_method)
                  LET done == process_array(nested_entities[nested_method], nested_method, id_counter)
                      added == [k \in 1..Len(done.entity_info) |->
                                  [method |-> nested_method,
                                   name |-> done.entity_info[k].name,
                                   id |-> done.entity_info[k].id]]
                  IN  ProcessNested([nested_entities EXCEPT ![nested_method] = done.arr],
                                    vi + 1, done.id_counter, triples \o added)

\* the loop over the items of arr, from item i on
ProcessItems(arr, i, http_method, id_counter, entity_info) ==
    IF i > Len(arr)
    THEN [arr |-> arr, entity_info |-> entity_info, id_counter |-> id_counter]
    ELSE LET \* item["id"] = id_counter; item["method"] = http_method; id_counter += 1
             item == [arr[i] EXCEPT !.id = id_counter, !.method = http_method]
             nested == IF item.nested_entities = None
                       THEN [nested_entities |-> None, id_counter |-> id_counter + 1, triples |-> <<>>]
                       ELSE LET walked == ProcessNested(item.nested_entities[1], 1, id_counter + 1, <<>>)
                            IN  [nested_entities |-> Some(walked.nested_entities),
                                 id_counter |-> walked.id_counter,
                                 triples |-> walked.triples]
             \* entity_data, its nested_entities deleted when it is empty
             entity_data == [name |-> item.name,
                             id |-> item.id,
                             nested_entities |-> IF nested.triples = <<>> THEN None
                                                 ELSE Some(nested.triples)]
         IN  ProcessItems([arr EXCEPT ![i] = [item EXCEPT !.nested_entities = nested.nested_entities]],
                          i + 1, http_method, nested.id_counter, Append(entity_info, entity_data))

\* process_array(arr, http_method, id_counter): the stamped list, the
\* entity_info it returns and the counter after it
process_array(arr, http_method, id_counter) ==
    IF arr = <<>> THEN [arr |-> arr, entity_info |-> <<>>, id_counter |-> id_counter]
    ELSE ProcessItems(arr, 1, http_method, id_counter, <<>>)

\* the loop over the root verbs of process_options, from verb vi on
RECURSIVE ProcessRoot(_, _, _, _)
ProcessRoot(data, vi, id_counter, entities) ==
    IF vi > Len(RootIndexVerbs)
    THEN [data |-> data,
          options |-> [api |-> data.api_info.title, entities |-> entities],
          total_ids |-> id_counter - 1]
    ELSE LET method == RootIndexVerbs[vi]
         IN  IF Len(data[method]) = 0 THEN ProcessRoot(data, vi + 1, id_counter, entities)
             ELSE LET done == process_array(data[method], method, id_counter)
                  IN  ProcessRoot([data EXCEPT ![method] = done.arr], vi + 1, done.id_counter,
                                  Append(entities, [method |-> method, items |-> done.entity_info]))

\* a slip of process_options: id_counter started at 0
ProcessOptionsFromZero(data) == ProcessRoot(data, 1, 0, <<>>)

\* process_options on the value read from the catalog file: the value
\* written back, the options written, and total_ids
process_options(data) == ProcessRoot(data, 1, 1, <<>>)

-----------------------------------------------------------------------------
(* The input documents.                                                    *)

PathParam(name) == [name |-> name, in |-> "path"]

QueryParam(name) == [name |-> name, in |-> "query"]

\* a path item: its path-level parameters and, per declared method, an
\* operation with no parameters of its own
PathItem(path, parameters, methods) ==
    [path |-> path, parameters |-> parameters, methods |-> [m \in methods |-> [parameters |-> <<>>]]]

\* the paths the input documents are made of
PoolOrder ==
    << PathItem("/OrderSet(OrderNo)", <<PathParam("OrderNo")>>, {"get", "patch"}),
       PathItem("/OrderSet", <<QueryParam("$filter")>>, {"get"}),
       PathItem("/OrderSet(OrderNo)/Lines", <<PathParam("OrderNo")>>, {"get"}),
       PathItem("/OrderSet(OrderNo)/Lines(LineNo)",
                <<PathParam("OrderNo"), QueryParam("$select"), PathParam("LineNo")>>, {"get", "delete"}),
       PathItem("/OrderASet/IfsApp.M.OrderA_Calculate", <<>>, {"post"}),
       PathItem("/OrderBSet/IfsApp.M.OrderB_Calculate", <<>>, {"post"}),
       PathItem("/Reference_Site(Contract)/IfsApp.M.Site_Calculate", <<PathParam("Contract")>>, {"post"}),
       PathItem("/Reference_Site(Contract)/Parts", <<PathParam("Contract")>>, {"get", "put"}),
       PathItem("/OrderSet(OrderNo)/IfsApp.M.Order_Default()", <<PathParam("OrderNo")>>, {"get"}),
       PathItem("/InvoiceSet(Id)/Items", <<PathParam("Id")>>, {"get"}) >>

PathPool == {PoolOrder[i] : i \in 1..Len(PoolOrder)}

\* the most paths a document drawn from the pool declares
MaxPaths == 3

\* the sequences of at most n paths of the pool
RECURSIVE PathLists(_)
PathLists(n) ==
    IF n = 0 THEN {<<>>}
    ELSE LET shorter == PathLists(n - 1)
         IN  shorter \cup {Append(l, p) : l \in {l \in shorter : Len(l) = n - 1},
                                          p \in PathPool}

\* the paths of the documents that make resolve_duplicate_names reach its
\* second pass: operations of one entity whose names collide
ResolverPool ==
    { PoolOrder[1],
      PoolOrder[3],
      PathItem("/OrderSet(OrderNo)/Details(DetailNo)/Lines",
               <<PathParam("OrderNo"), PathParam("DetailNo")>>, {"get"}),
      PathItem("/OrderSet(OrderNo)/Items(DetailNo)/Lines",
               <<PathParam("OrderNo"), PathParam("DetailNo")>>, {"get"}),
      PathItem("/OrderSet(OrderNo,LineNo)",
               <<PathParam("OrderNo"), PathParam("LineNo")>>, {"get"}) }

\* the sequences of at most n paths of the resolver pool
RECURSIVE ResolverLists(_)
ResolverLists(n) ==
    IF n = 0 THEN {<<>>}
    ELSE LET shorter == ResolverLists(n - 1)
         IN  shorter \cup {Append(l, p) : l \in {l \in shorter : Len(l) = n - 1},
                                          p \in ResolverPool}

\* the keys of a JSON object are distinct
Distinct(l) == \A i, j \in 1..Len(l) : i # j => l[i].path # l[j].path

\* seq reversed
Reverse(seq) == [i \in 1..Len(seq) |-> seq[Len(seq) + 1 - i]]

\* the servers lists: absent (the default, one server with no url) or one
\* service root ending in .svc
ServerLists ==
    { <<[url |-> None]>>, <<[url |-> Some("https://h/x.svc")]>> }

\* the documents: every list of at most MaxPaths distinct paths of the
\* pool or of the resolver pool, and the whole pool declared forwards and
\* backwards
Documents ==
    {[info |-> Some([title |-> Some("Orders")]), servers |-> s, paths |-> l] :
        s \in ServerLists,
        l \in {l \in PathLists(MaxPaths) : Distinct(l)}
              \cup {l \in ResolverLists(MaxPaths) : Distinct(l)}
              \cup {PoolOrder, Reverse(PoolOrder)}}

\* the value of parsed before parse_openapi_spec has run
NotParsed ==
    [api_info |-> [title |-> "", base_url |-> ""],
     entities |-> <<>>, nested_entities |-> <<>>, reference_entities |-> <<>>,
     actions |-> <<>>, functions |-> <<>>,
     summary |-> [total_endpoints |-> 0, total_entities |-> 0, total_nested_entities |-> 0,
                  total_reference_entities |-> 0, total_actions |-> 0, total_functions |-> 0,
                  methods_count |-> [v \in VerbSet |-> 0]]]

\* a directory without files
EmptyDir == <<>>

\* no batch run: the directories of generate.py are empty and nothing is printed
NoBatch ==
    /\ data_dir = EmptyDir
    /\ parsed_data_dir = EmptyDir
    /\ options_dir = EmptyDir
    /\ read_only = {}
    /\ todo = <<>>
    /\ parsed_files = <<>>
    /\ options_files = <<>>
    /\ log = <<>>

-----------------------------------------------------------------------------
(* Reference Resolver.  A node of a JSON document is a record: kind is     *)
(* map, list or str, and items maps the keys of a map to its nodes.        *)

\* the empty dict
EmptyMap == [kind |-> "map", items |-> <<>>]

\* isinstance(node, dict)
IsDict(node) == node.kind = "map"

\* a slip of resolve_ref: the node the parts lead to returned whatever its
\* type, without the final isinstance test
RECURSIVE FollowPartsAnyTerminal(_, _)
FollowPartsAnyTerminal(result, parts) ==
    IF parts = <<>> THEN result
    ELSE IF IsDict(result) /\ Head(parts) \in DOMAIN result.items
         THEN FollowPartsAnyTerminal(result.items[Head(parts)], Tail(parts))
         ELSE EmptyMap

\* the loop of resolve_ref: for part in parts
RECURSIVE FollowParts(_, _)
FollowParts(result, parts) ==
    IF parts = <<>> THEN (IF IsDict(result) THEN result ELSE EmptyMap)
    ELSE IF IsDict(result) /\ Head(parts) \in DOMAIN result.items
         THEN FollowParts(result.items[Head(parts)], Tail(parts))
         ELSE EmptyMap

\* resolve_ref(spec, ref), spec a dict
resolve_ref(document, pointer) ==
    IF pointer = "" \/ ~StartsWith(pointer, "#/") THEN EmptyMap
    ELSE FollowParts(IF "openapi_spec" \in DOMAIN document.items
                     THEN document.items["openapi_spec"]
                     ELSE document,
                     Split(SubSeq(pointer, 3, Len(pointer)), "/"))

\* the keys the documents use
RefKeys == {"a", "openapi_spec"}

\* the segments the pointers use: the keys and a key no document has
RefSegments == RefKeys \cup {"b"}

\* the nodes with no node below them
RefLeaves == {EmptyMap, [kind |-> "str", items |-> <<>>], [kind |-> "list", items |-> <<>>]}

\* the maps whose values are in nodes
MapsOver(nodes) ==
    {[kind |-> "map", items |-> f] : f \in UNION {[keys -> nodes] : keys \in SUBSET RefKeys}}

\* the map with key a over node, n times over
RECURSIVE Chain(_, _)
Chain(n, node) ==
    IF n = 0 THEN node ELSE [kind |-> "map", items |-> [k \in {"a"} |-> Chain(n - 1, node)]]

\* the document whose openapi_spec key holds the specification body
Wrapped(body) == [kind |-> "map", items |-> [k \in {"openapi_spec"} |-> body]]

\* the most segments a pointer has
MaxRefLen == 3

\* the deep documents: chains of at most MaxRefLen maps that end in a leaf or
\* in a map that is not empty
RefChains ==
    {Chain(n, node) : n \in 1..MaxRefLen,
                      node \in RefLeaves \cup {Chain(1, [kind |-> "str", items |-> <<>>])}}

\* the documents: maps of maps of leaves, and the deep documents, bare or
\* wrapped
RefDocuments ==
    MapsOver(RefLeaves \cup MapsOver(RefLeaves)) \cup RefChains \cup {Wrapped(d) : d \in RefChains}

\* the texts of at most n segments joined by slashes
RECURSIVE SegmentPaths(_)
SegmentPaths(n) ==
    IF n = 1 THEN RefSegments
    ELSE SegmentPaths(n - 1) \cup {p \o "/" \o seg : p \in SegmentPaths(n - 1), seg \in RefSegments}

\* the pointers: well formed ones, and strings that are no pointer
RefPointers ==
    {"#/" \o p : p \in SegmentPaths(MaxRefLen)}
    \cup {"", "#", "#/", "a", "/a", "#a/a", "a/#/a", "#/a/", "#//a"}

InitRef ==
    /\ pc = "ref"
    /\ ref_doc \in RefDocuments
    /\ ref \in RefPointers
    /\ ref_result = EmptyMap
    /\ spec = [servers |-> <<[url |-> None]>>, paths |-> <<>>]
    /\ parsed = NotParsed
    /\ simplified = EmptyBuckets
    /\ parent_to_nested = <<>>
    /\ catalog_file = None
    /\ options_file = None
    /\ NoBatch

\* schema = resolve_ref(spec, ref)
ResolveRef ==
    /\ pc = "ref"
    /\ ref_result' = resolve_ref(ref_doc, ref)
    /\ pc' = "resolved"
    /\ UNCHANGED <<spec, parsed, simplified, parent_to_nested, ref_doc, ref,
                   catalog_file, options_file, batch_vars>>

NextRef == ResolveRef

SpecRef == InitRef /\ [][NextRef]_vars

-----
(* The run of the pipeline on one document.                                *)

Init ==
    /\ pc = "start"
    /\ spec \in Documents
    /\ parsed = NotParsed
    /\ simplified = EmptyBuckets
    /\ parent_to_nested = <<>>
    /\ ref_doc = EmptyMap
    /\ ref = ""
    /\ ref_result = EmptyMap
    /\ catalog_file = None
    /\ options_file = None
    /\ NoBatch

\* parsed_data = parse_openapi_spec(file_path)
ParseOpenapiSpec ==
    /\ pc = "start"
    /\ parsed' = Strict(parse_openapi_spec, spec)
    /\ pc' = "parsed"
    /\ UNCHANGED <<spec, simplified, parent_to_nested, ref_doc, ref, ref_result,
                   catalog_file, options_file, batch_vars>>

\* simplified_data = generate_simplified_output(parsed_data)
GenerateSimplifiedOutput ==
    /\ pc = "parsed"
    /\ \E out \in {Strict(generate_simplified_output, parsed)} :
          /\ simplified' = out.simplified
          /\ parent_to_nested' = out.parent_to_nested
    /\ pc' = "generated"
    /\ UNCHANGED <<spec, parsed, ref_doc, ref, ref_result, catalog_file, options_file,
                   batch_vars>>

\* json.dump(simplified_data, f): every top-level entry is written with the
\* lists of the nested_entities dict it holds, so the file has one copy of
\* the dict per entry that shares it
JsonDump(simp, p2n) ==
    WithApiInfo(simp.api_info,
       [v \in VerbSet |->
          [i \in 1..Len(simp[v]) |->
             [simp[v][i] EXCEPT !.nested_entities =
                 IF @ = None THEN None ELSE Some(Lookup(p2n, @[1]).buckets)]]])

\* with open(output_file, 'w') as f: json.dump(simplified_data, f)
WriteCatalog ==
    /\ pc = "generated"
    /\ catalog_file' = Some(JsonDump(simplified, parent_to_nested))
    /\ pc' = "written"
    /\ UNCHANGED <<spec, parsed, simplified, parent_to_nested, ref_doc, ref, ref_result,
                   options_file, batch_vars>>

\* stats = process_options(input_file, output_file): the catalog file is
\* read, stamped and written back, and the options file is written
ProcessOptions ==
    /\ pc = "written"
    /\ \E out \in {Strict(process_options, catalog_file[1])} :
          /\ catalog_file' = Some(out.data)
          /\ options_file' = Some(out.options)
    /\ pc' = "indexed"
    /\ UNCHANGED <<spec, parsed, simplified, parent_to_nested, ref_doc, ref, ref_result,
                   batch_vars>>

Next == ParseOpenapiSpec \/ GenerateSimplifiedOutput \/ WriteCatalog \/ ProcessOptions

Spec == Init /\ [][Next]_vars

-----------------------------------------------------------------------------
(* The run of the pipeline on a document of one path, the path drawn from  *)
(* the shapes that the classifier and the name synthesizer tell apart.     *)

\* a path and the path parameters its segments name
Shape(path, params) == [path |-> path, params |-> params]

\* the shapes: collections, items, child collections at two depths, a
\* collection under a singleton, bound and unbound actions and functions,
\* a namespaced call without underscore, reference entities
ShapePool ==
    { Shape("/OrderSet", <<>>),
      Shape("/OrderSet(OrderNo)", <<"OrderNo">>),
      Shape("/OrderSet(OrderNo,LineNo)", <<"OrderNo", "LineNo">>),
      Shape("/OrderSet(OrderNo)/Lines", <<"OrderNo">>),
      Shape("/OrderSet(OrderNo)/Lines(LineNo)", <<"OrderNo", "LineNo">>),
      Shape("/OrderSet(OrderNo)/Details(DetailNo)/Lines", <<"OrderNo", "DetailNo">>),
      Shape("/Company/Lines", <<>>),
      Shape("/Company/OrderSet(OrderNo)", <<"OrderNo">>),
      Shape("/Company/OrderSet(OrderNo)/Lines", <<"OrderNo">>),
      Shape("/OrderSet/IfsApp.M.Order_Calculate", <<>>),
      Shape("/OrderSet(OrderNo)/IfsApp.M.Order_Calculate", <<"OrderNo">>),
      Shape("/OrderSet/IfsApp.M.Refresh", <<>>),
      Shape("/OrderSet/IfsApp.M.Order_Default()", <<>>),
      Shape("/OrderSet(OrderNo)/IfsApp.M.Order_Default()", <<"OrderNo">>),
      Shape("/IfsApp.M.Order_Count()", <<>>),
      Shape("/Reference_Site(Contract)", <<"Contract">>),
      Shape("/Reference_Site(Contract)/Parts", <<"Contract">>) }

\* the methods a path of a shaped document declares: one verb, or two
ShapeMethods == {{"get"}, {"post"}, {"put"}, {"patch"}, {"delete"}, {"get", "post"}}

\* the path-level parameters a document declares for a shape: the path
\* parameters the path names, or none
ShapeParameters(shape) ==
    {<<>>, [i \in 1..Len(shape.params) |-> PathParam(shape.params[i])]}

\* the documents of one shaped path
ShapeDocuments ==
    UNION {{[info |-> Some([title |-> Some("Orders")]),
             servers |-> s,
             paths |-> <<PathItem(shape.path, parameters, methods)>>] :
               s \in ServerLists,
               parameters \in ShapeParameters(shape),
               methods \in ShapeMethods} : shape \in ShapePool}

InitShapes ==
    /\ pc = "start"
    /\ spec \in ShapeDocuments
    /\ parsed = NotParsed
    /\ simplified = EmptyBuckets
    /\ parent_to_nested = <<>>
    /\ ref_doc = EmptyMap
    /\ ref = ""
    /\ ref_result = EmptyMap
    /\ catalog_file = None
    /\ options_file = None
    /\ NoBatch

SpecShapes == InitShapes /\ [][Next]_vars

-----------------------------------------------------------------------------
(* Batch mode: main, step1_parse_data and step2_generate_options of        *)
(* src/generate.py.  The engine it calls is modelled by parse_openapi_spec *)
(* and generate_simplified_output of src/parse_openapi.py.                 *)

\* p.rfind(c): the place of the last c of a path, 0 when it has none
LastIndexOf(p, c) ==
    LET places == {i \in 1..Len(p) : SubSeq(p, i, i) = c}
    IN  IF places = {} THEN 0 ELSE CHOOSE i \in places : \A k \in places : k <= i

\* os.path.basename(p): what follows the last slash of the path
BaseName(p) == SubSeq(p, LastIndexOf(p, "/") + 1, Len(p))

\* the root of a path: os.path.splitext(p)[0]. The extension starts at the
\* last dot of the path when that dot is after the last slash, unless only
\* dots stand between the slash and that dot (the leading dots of a name
\* are skipped): then the path has no extension
SplitExtRoot(p) ==
    LET sepIndex == LastIndexOf(p, "/")
        dotIndex == LastIndexOf(p, ".")
    IN  IF dotIndex <= sepIndex THEN p
        ELSE IF \A j \in (sepIndex + 1)..(dotIndex - 1) : SubSeq(p, j, j) = "." THEN p
        ELSE SubSeq(p, 1, dotIndex - 1)

\* get_output_filename(input_filename)
get_output_filename(input_filename) ==
    Lower(SplitExtRoot(BaseName(input_filename))) \o ".json"

\* the options file of a catalog file: f"{base_name}-options.json"
OptionsFilename(filename) == SplitExtRoot(filename) \o "-options.json"

\* glob.glob(os.path.join(directory, '*.json')): the names of the directory
\* that end in .json
GlobJson(dir) == {name \in DOMAIN dir : EndsWith(name, ".json") /\ SubSeq(name, 1, 1) # "."}

\* sorted(json_files)
RECURSIVE Sorted(_)
Sorted(names) ==
    IF names = {} THEN <<>>
    ELSE LET first == CHOOSE n \in names : \A m \in names \ {n} : StrLess(n, m)
         IN  <<first>> \o Sorted(names \ {first})

\* open(path, 'w') and json.dump(content, f): the directory with the file
\* created or replaced
WriteFile(dir, name, content) ==
    [n \in DOMAIN dir \cup {name} |-> IF n = name THEN content ELSE dir[n]]

\* parse_openapi_spec(input_file) raises: the file is not JSON (json.load),
\* or servers is an empty list (spec.get('servers', [{}])[0])
ParseRaises(content) == content = None \/ content[1].servers = <<>>

\* process_options(input_file, output_file) raises: the catalog file is not
\* JSON, or one of the two files cannot be opened for writing
ProcessOptionsRaises(filename) ==
    \/ parsed_data_dir[filename] = None
    \/ <<"parsed_data", filename>> \in read_only
    \/ <<"options", OptionsFilename(filename)>> \in read_only

\* an exception that ends the loop: no file is left to it
AfterErrorAbort(files) == <<>>

\* except Exception as e: print(f"  ERROR: {e}"); continue
\* the files left to the loop after the current one has raised
AfterError(files) == Tail(files)

\* the printed line of an event of a file
Line(event, file) == [event |-> event, file |-> file]

\* main calls step1_parse_data: the data directory is listed
Step1Start ==
    /\ pc = "main"
    /\ LET json_files == GlobJson(data_dir)
       IN  IF json_files = {}
           THEN /\ pc' = "done"
                /\ todo' = <<>>
           ELSE /\ pc' = "step1"
                /\ todo' = Sorted(json_files)
    /\ UNCHANGED <<spec, parsed, simplified, parent_to_nested, ref_doc, ref, ref_result,
                   catalog_file, options_file, data_dir, parsed_data_dir, options_dir,
                   read_only, parsed_files, options_files, log>>

\* the head of an iteration of step 1 with the catalog file opened for
\* writing before parse_openapi_spec is called
Step1ParseOpeningFirst ==
    /\ pc = "step1"
    /\ todo # <<>>
    /\ LET filename == Head(todo)
       IN  /\ parsed_data_dir' = WriteFile(parsed_data_dir, get_output_filename(filename), None)
           /\ IF ParseRaises(data_dir[filename])
              THEN /\ log' = log \o <<Line("Parsing", filename), Line("ERROR", filename)>>
                   /\ todo' = AfterError(todo)
                   /\ UNCHANGED <<pc, spec, parsed>>
              ELSE /\ log' = Append(log, Line("Parsing", filename))
                   /\ spec' = data_dir[filename][1]
                   /\ parsed' = Strict(parse_openapi_spec, data_dir[filename][1])
                   /\ pc' = "step1_parsed"
                   /\ UNCHANGED todo
    /\ UNCHANGED <<simplified, parent_to_nested, ref_doc, ref, ref_result, catalog_file,
                   options_file, data_dir, options_dir, read_only, parsed_files,
                   options_files>>

\* the head of an iteration of step 1, up to the return of
\* parse_openapi_spec or the except clause
Step1Parse ==
    /\ pc = "step1"
    /\ todo # <<>>
    /\ LET filename == Head(todo)
       IN  IF ParseRaises(data_dir[filename])
           THEN /\ log' = log \o <<Line("Parsing", filename), Line("ERROR", filename)>>
                /\ todo' = AfterError(todo)
                /\ UNCHANGED <<pc, spec, parsed>>
           ELSE /\ log' = Append(log, Line("Parsing", filename))
                /\ spec' = data_dir[filename][1]
                /\ parsed' = Strict(parse_openapi_spec, data_dir[filename][1])
                /\ pc' = "step1_parsed"
                /\ UNCHANGED todo
    /\ UNCHANGED <<simplified, parent_to_nested, ref_doc, ref, ref_result, catalog_file,
                   options_file, data_dir, parsed_data_dir, options_dir, read_only,
                   parsed_files, options_files>>

\* simplified_data = generate_simplified_output(parsed_data)
Step1Generate ==
    /\ pc = "step1_parsed"
    /\ \E out \in {Strict(generate_simplified_output, parsed)} :
          /\ simplified' = out.simplified
          /\ parent_to_nested' = out.parent_to_nested
    /\ pc' = "step1_generated"
    /\ UNCHANGED <<spec, parsed, ref_doc, ref, ref_result, catalog_file, options_file,
                   batch_vars>>

\* the catalog file is opened and written, and the document appended to
\* parsed_files; or open raises and the except clause continues
Step1Write ==
    /\ pc = "step1_generated"
    /\ LET filename == Head(todo)
           output_filename == get_output_filename(filename)
       IN  IF <<"parsed_data", output_filename>> \in read_only
           THEN /\ log' = Append(log, Line("ERROR", filename))
                /\ todo' = AfterError(todo)
                /\ UNCHANGED <<parsed_data_dir, parsed_files>>
           ELSE /\ parsed_data_dir' = WriteFile(parsed_data_dir, output_filename,
                                                Some(JsonDump(simplified, parent_to_nested)))
                /\ log' = Append(log, Line("->", output_filename))
                /\ parsed_files' = Append(parsed_files, [input |-> filename,
                                                         filename |-> output_filename])
                /\ todo' = Tail(todo)
    /\ pc' = "step1"
    /\ UNCHANGED <<spec, parsed, simplified, parent_to_nested, ref_doc, ref, ref_result,
                   catalog_file, options_file, data_dir, options_dir, read_only,
                   options_files>>

\* step1_parse_data returning from inside its loop, after an iteration
Step1ReturnInsideLoop ==
    /\ pc = "step1"
    /\ IF parsed_files = <<>>
       THEN /\ pc' = "done"
            /\ todo' = <<>>
       ELSE /\ pc' = "step2"
            /\ todo' = Sorted(GlobJson(parsed_data_dir))
    /\ UNCHANGED <<spec, parsed, simplified, parent_to_nested, ref_doc, ref, ref_result,
                   catalog_file, options_file, data_dir, parsed_data_dir, options_dir,
                   read_only, parsed_files, options_files, log>>

\* step1_parse_data returns parsed_files; main returns when it is empty
\* and calls step2_generate_options otherwise: parsed_data is listed
Step1Return ==
    /\ pc = "step1"
    /\ todo = <<>>
    /\ IF parsed_files = <<>>
       THEN /\ pc' = "done"
            /\ UNCHANGED todo
       ELSE /\ pc' = "step2"
            /\ todo' = Sorted(GlobJson(parsed_data_dir))
    /\ UNCHANGED <<spec, parsed, simplified, parent_to_nested, ref_doc, ref, ref_result,
                   catalog_file, options_file, data_dir, parsed_data_dir, options_dir,
                   read_only, parsed_files, options_files, log>>

\* an iteration of step 2: process_options(input_file, output_file) reads
\* the catalog file, writes it back stamped and writes the options file
Step2ProcessOptions ==
    /\ pc = "step2"
    /\ todo # <<>>
    /\ LET filename == Head(todo)
           output_filename == OptionsFilename(filename)
       IN  IF ProcessOptionsRaises(filename)
           THEN /\ log' = log \o <<Line("Processing", filename), Line("ERROR", filename)>>
                /\ todo' = AfterError(todo)
                /\ parsed_data_dir' =
                      IF /\ parsed_data_dir[filename] # None
                         /\ <<"parsed_data", filename>> \notin read_only
                      THEN WriteFile(parsed_data_dir, filename,
                                     Some(Strict(process_options, parsed_data_dir[filename][1]).data))
                      ELSE parsed_data_dir
                /\ UNCHANGED <<options_dir, options_files>>
           ELSE \E stats \in {Strict(process_options, parsed_data_dir[filename][1])} :
                   /\ parsed_data_dir' = WriteFile(parsed_data_dir, filename, Some(stats.data))
                   /\ options_dir' = WriteFile(options_dir, output_filename, Some(stats.options))
                   /\ log' = log \o <<Line("Processing", filename), Line("->", output_filename)>>
                   /\ options_files' = Append(options_files, [input |-> filename,
                                                              output |-> output_filename,
                                                              total_ids |-> stats.total_ids])
                   /\ todo' = Tail(todo)
    /\ UNCHANGED <<pc, spec, parsed, simplified, parent_to_nested, ref_doc, ref, ref_result,
                   catalog_file, options_file, data_dir, read_only, parsed_files>>

\* step2_generate_options returns and main ends
Step2Return ==
    /\ pc = "step2"
    /\ todo = <<>>
    /\ pc' = "done"
    /\ UNCHANGED <<spec, parsed, simplified, parent_to_nested, ref_doc, ref, ref_result,
                   catalog_file, options_file, batch_vars>>

\* the documents of the data directory of a batch run
OrdersDocument ==
    [info |-> Some([title |-> Some("Orders")]),
     servers |-> <<[url |-> Some("https://h/x.svc")]>>,
     paths |-> <<PoolOrder[1], PoolOrder[2], PoolOrder[3]>>]

PartsDocument ==
    [info |-> Some([title |-> Some("Parts")]),
     servers |-> <<[url |-> None]>>,
     paths |-> <<PoolOrder[8]>>]

\* info without a title
UntitledDocument ==
    [info |-> Some([title |-> None]),
     servers |-> <<[url |-> Some("https://h/x.svc")]>>,
     paths |-> <<PoolOrder[10]>>]

\* no info at all
NoInfoDocument ==
    [info |-> None,
     servers |-> <<[url |-> None]>>,
     paths |-> <<PoolOrder[2]>>]

\* servers: []
NoServerDocument ==
    [info |-> Some([title |-> Some("Sites")]),
     servers |-> <<>>,
     paths |-> <<PoolOrder[2]>>]

\* the contents of an input file: text that is not JSON, or a document
FileContents ==
    {None} \cup {Some(d) : d \in {OrdersDocument, PartsDocument, UntitledDocument,
                                   NoInfoDocument, NoServerDocument}}

\* the names of the input files
FileNames == {"Order.json", "order.json", "Parts.json"}

MaxFiles == 2

\* the data directories: at most MaxFiles files
DataDirs ==
    UNION {[names -> FileContents] : names \in {n \in SUBSET FileNames : Cardinality(n) <= MaxFiles}}

\* parsed_data before the run: empty, or a file left there that is not JSON
ParsedDataDirs == {EmptyDir, [n \in {"old.json"} |-> None]}

\* the paths that cannot be opened for writing
ReadOnlySets == {{}, {<<"parsed_data", "parts.json">>}, {<<"options", "order-options.json">>}}

\* the value of spec before a file is parsed
NoDocument == [info |-> None, servers |-> <<[url |-> None]>>, paths |-> <<>>]

InitBatch ==
    /\ pc = "main"
    /\ spec = NoDocument
    /\ parsed = NotParsed
    /\ simplified = EmptyBuckets
    /\ parent_to_nested = <<>>
    /\ ref_doc = EmptyMap
    /\ ref = ""
    /\ ref_result = EmptyMap
    /\ catalog_file = None
    /\ options_file = None
    /\ data_dir \in DataDirs
    /\ parsed_data_dir \in ParsedDataDirs
    /\ options_dir = EmptyDir
    /\ read_only \in ReadOnlySets
    /\ todo = <<>>
    /\ parsed_files = <<>>
    /\ options_files = <<>>
    /\ log = <<>>

NextBatch ==
    \/ Step1Start
    \/ Step1Parse
    \/ Step1Generate
    \/ Step1Write
    \/ Step1Return
    \/ Step2ProcessOptions
    \/ Step2Return

SpecBatch == InitBatch /\ [][NextBatch]_vars

-----------------------------------------------------------------------------
(* process_json.py: run without arguments, every catalog file of          *)
(* parsed_data/ is indexed, in the order os.listdir gives; run with a file *)
(* argument, that file alone is indexed. Nothing catches what process_file *)
(* raises. A directory is the files it holds: a parsed_data/ that does not *)
(* exist is the directory without files.                                   *)

\* process_file(input_file, output_file) on the value read from the input
\* file: the value written back, the options written, and the total returned
process_file(data) == ProcessRoot(data, 1, 1, <<>>)

\* the names of os.listdir(parsed_data_dir) that end in .json and do not
\* start with a dot
ListDirJson(dir) ==
    {f \in DOMAIN dir : EndsWith(f, ".json") /\ ~StartsWith(f, ".")}

\* the orders os.listdir may give the names in: any
ListDirOrders(names) ==
    {order \in [1..Cardinality(names) -> names] :
        \A i, j \in 1..Cardinality(names) : order[i] = order[j] => i = j}

\* the printed line of the total of a file
TotalLine(file, total_ids) == [event |-> "Total IDs", file |-> file, total_ids |-> total_ids]

\* main without arguments lists parsed_data/: sys.exit(1) when the
\* directory does not exist or no file is listed
ProcessJsonMain ==
    /\ pc = "pj_main"
    /\ LET files_to_process == ListDirJson(parsed_data_dir)
       IN  IF files_to_process = {}
           THEN /\ pc' = "pj_exit"
                /\ todo' = <<>>
           ELSE /\ pc' = "pj_loop"
                /\ todo' \in ListDirOrders(files_to_process)
    /\ UNCHANGED <<spec, parsed, simplified, parent_to_nested, ref_doc, ref, ref_result,
                   catalog_file, options_file, data_dir, parsed_data_dir, options_dir,
                   read_only, parsed_files, options_files, log>>

\* the names of parsed_data/: catalog files, a hidden file, a file that is
\* not .json
CatalogNames == {"order.json", "old.json", ".order.json", "notes.txt"}

\* main with a file argument, sys.argv[1] the path of input_file in
\* parsed_data/: sys.exit(1) when the file does not exist, else that file
\* alone is to be processed, whatever its name
ProcessJsonMainFile ==
    /\ pc = "pj_main"
    /\ \E input_file \in CatalogNames :
          IF input_file \notin DOMAIN parsed_data_dir
          THEN /\ pc' = "pj_exit"
               /\ todo' = <<>>
          ELSE /\ pc' = "pj_loop"
               /\ todo' = <<input_file>>
    /\ UNCHANGED <<spec, parsed, simplified, parent_to_nested, ref_doc, ref, ref_result,
                   catalog_file, options_file, data_dir, parsed_data_dir, options_dir,
                   read_only, parsed_files, options_files, log>>

\* an iteration of the loop of main: process_file reads the file, writes it
\* back and writes the options file. What it raises (json.load on a file
\* that is not JSON, open on a path that cannot be written) is caught by
\* nothing and ends the run, the files after it unvisited
ProcessJsonFile ==
    /\ pc = "pj_loop"
    /\ todo # <<>>
    /\ LET file_name == Head(todo)
           output_file == OptionsFilename(file_name)
       IN  IF parsed_data_dir[file_name] = None
              \/ <<"parsed_data", file_name>> \in read_only
           THEN /\ log' = Append(log, Line("Processing", file_name))
                /\ pc' = "pj_raised"
                /\ UNCHANGED <<parsed_data_dir, options_dir, todo>>
           ELSE \E stats \in {Strict(process_file, parsed_data_dir[file_name][1])} :
                   /\ parsed_data_dir' = WriteFile(parsed_data_dir, file_name, Some(stats.data))
                   /\ IF <<"options", output_file>> \in read_only
                      THEN /\ log' = Append(log, Line("Processing", file_name))
                           /\ pc' = "pj_raised"
                           /\ UNCHANGED <<options_dir, todo>>
                      ELSE /\ options_dir' = WriteFile(options_dir, output_file,
                                                       Some(stats.options))
                           /\ log' = log \o <<Line("Processing", file_name),
                                              Line("Updated", file_name),
                                              Line("Created", output_file),
                                              TotalLine(file_name, stats.total_ids)>>
                           /\ todo' = Tail(todo)
                           /\ UNCHANGED pc
    /\ UNCHANGED <<spec, parsed, simplified, parent_to_nested, ref_doc, ref, ref_result,
                   catalog_file, options_file, data_dir, read_only, parsed_files,
                   options_files>>

\* the loop of main is over and main returns
ProcessJsonReturn ==
    /\ pc = "pj_loop"
    /\ todo = <<>>
    /\ pc' = "pj_done"
    /\ UNCHANGED <<spec, parsed, simplified, parent_to_nested, ref_doc, ref, ref_result,
                   catalog_file, options_file, batch_vars>>

\* the catalog generate_simplified_output makes of a document, as written
CatalogOf(document) ==
    CHOOSE catalog \in
        {JsonDump(out.simplified, out.parent_to_nested) :
            out \in {Strict(generate_simplified_output, parsed_data) :
                        parsed_data \in {Strict(parse_openapi_spec, document)}}} : TRUE

\* the contents of a file of parsed_data/: text that is not JSON, or a catalog
CatalogContents ==
    {None} \cup {Some(CatalogOf(document)) : document \in {OrdersDocument, PartsDocument}}

\* the directories of these names with these contents
CatalogDirs(contents) == UNION {[names -> contents] : names \in SUBSET CatalogNames}

CatalogReadOnlySets ==
    {{}, {<<"parsed_data", "order.json">>}, {<<"options", "old-options.json">>}}

InitProcessJson ==
    /\ pc = "pj_main"
    /\ spec = NoDocument
    /\ parsed = NotParsed
    /\ simplified = EmptyBuckets
    /\ parent_to_nested = <<>>
    /\ ref_doc = EmptyMap
    /\ ref = ""
    /\ ref_result = EmptyMap
    /\ catalog_file = None
    /\ options_file = None
    /\ data_dir = EmptyDir
    /\ \E contents \in {CatalogContents} : parsed_data_dir \in CatalogDirs(contents)
    /\ options_dir = EmptyDir
    /\ read_only \in CatalogReadOnlySets
    /\ todo = <<>>
    /\ parsed_files = <<>>
    /\ options_files = <<>>
    /\ log = <<>>

NextProcessJson ==
    \/ ProcessJsonMain
    \/ ProcessJsonMainFile
    \/ ProcessJsonFile
    \/ ProcessJsonReturn

SpecProcessJson == InitProcessJson /\ [][NextProcessJson]_vars

-----------------------------------------------------------------------------
(* The catalog as json.dump writes it, and the operations of the document. *)

Generated == pc = "generated"

\* the (path, verb) operations of the document
Operations ==
    UNION {{<<spec.paths[i].path, Upper(m)>> : m \in DOMAIN spec.paths[i].methods} :
             i \in 1..Len(spec.paths)}

\* the top-level nodes of the catalog: <<verb, place in the list>>
TopNodes == UNION {{<<v, i>> : i \in 1..Len(simplified[v])} : v \in VerbSet}

TopEntry(n) == simplified[n[1]][n[2]]

\* the nested nodes: <<verb, place, nested verb, place in the nested list>>
NestedNodes ==
    UNION {UNION {{<<n[1], n[2], nv, j>> :
                     j \in 1..Len(NestedOf(parent_to_nested, TopEntry(n))[nv])} : nv \in VerbSet} :
             n \in TopNodes}

NestedEntry(n) == NestedOf(parent_to_nested, TopEntry(<<n[1], n[2]>>))[n[3]][n[4]]

CatalogNodes == TopNodes \cup NestedNodes

EntryAt(n) == IF Len(n) = 2 THEN TopEntry(n) ELSE NestedEntry(n)

\* the nested entries of a top-level entry in the order the id loop visits them
NestedInVisitOrder(api) == InVisitOrder(NestedOf(parent_to_nested, api))

\* the places in p2n of the nested_entities dicts that the top-level
\* entries of simp hold
Attached(simp, p2n) ==
    LET held == UNION {{simp[v][i].nested_entities : i \in 1..Len(simp[v])} : v \in VerbSet}
    IN  {k \in 1..Len(p2n) : Some(p2n[k].key) \in held}

\* apis is in non-decreasing order of lower-cased name
SortedByLowerName(apis) ==
    \A i \in 1..(Len(apis) - 1) : ~StrLess(Lower(apis[i + 1].name), Lower(apis[i].name))

-----------------------------------------------------------------------------
(* Claims.                                                                 *)

\* C1 (as claimed): once the catalog is generated, the ids carried by its
\* entries, top-level and nested, are exactly 1..N, N the number of
\* operations of the document, and no id is carried by two entries.
C1_IdsDenseAndUnique ==
    Generated =>
        /\ {EntryAt(n).id : n \in CatalogNodes} = 1..Cardinality(Operations)
        /\ \A n1, n2 \in CatalogNodes : n1 # n2 => EntryAt(n1).id # EntryAt(n2).id

\* C2 (as claimed): the ids follow the nesting-aware traversal: the first
\* top-level entry in verb order has id 1, the nested entries of an entry
\* carry the ids that follow its own, in nested verb order, and the next
\* top-level entry carries the id after those.
C2_NestingAwareIds ==
    Generated =>
        LET top == InVisitOrder(simplified)
        IN  /\ Len(top) > 0 => top[1].id = 1
            /\ \A k \in 1..Len(top) :
                  LET nested == NestedInVisitOrder(top[k])
                  IN  /\ \A j \in 1..Len(nested) : nested[j].id = top[k].id + j
                      /\ k < Len(top) => top[k + 1].id = top[k].id + Len(nested) + 1

\* C3: once the catalog is generated, every top-level verb list and every
\* nested verb list is in non-decreasing order of lower-cased final name.
C3_BucketsSorted ==
    Generated =>
        /\ \A v \in VerbSet : SortedByLowerName(simplified[v])
        /\ \A k \in Attached(simplified, parent_to_nested) : \A nv \in VerbSet :
              SortedByLowerName(parent_to_nested[k].buckets[nv])

\* C3 witness: a generated catalog with a top-level list of three entries
\* or more in which the duplicate resolver renamed some entries and left
\* another alone, and with a nested list of two entries or more.
C3_Witness ==
    /\ Generated
    /\ \E v \in VerbSet :
          /\ Len(simplified[v]) >= 3
          /\ \E i, j \in 1..Len(simplified[v]) :
                /\ Contains(simplified[v][i].name, " - ")
                /\ ~Contains(simplified[v][j].name, " - ")
    /\ \E n \in NestedNodes : n[4] >= 2

\* the category maps in the order of their precedence
Precedence == <<"actions", "functions", "reference_entities", "nested_entities", "entities">>

\* the category applies to a path with this classification
Applies(category, info) ==
    CASE category = "actions" -> info.is_action
      [] category = "functions" -> info.is_function
      [] category = "reference_entities" -> info.is_reference
      [] category = "nested_entities" -> info.is_nested
      [] category = "entities" -> TRUE

\* the places of a category map that hold the record of an operation
FiledIn(category, op) ==
    LET d == parsed[category]
    IN  UNION {{<<category, e, i>> : i \in {i \in 1..Len(d[e].apis) :
                                              d[e].apis[i].path = op[1] /\ d[e].apis[i].method = op[2]}} :
                 e \in 1..Len(d)}

\* C4: after aggregation every operation has its record in exactly one
\* place of the five category maps, in the first map of the precedence
\* order action, function, reference, nested, primary that applies.
C4_FiledExactlyOnce ==
    pc \in {"parsed", "generated"} =>
        \A op \in Operations :
            LET info == identify_entity_type(op[1])
                first == CHOOSE k \in 1..Len(Precedence) :
                            /\ Applies(Precedence[k], info)
                            /\ \A j \in 1..(k - 1) : ~Applies(Precedence[j], info)
            IN  /\ Cardinality(UNION {FiledIn(Precedence[k], op) : k \in 1..Len(Precedence)}) = 1
                /\ Cardinality(FiledIn(Precedence[first], op)) = 1

\* C4 witness: an aggregated document with an operation to which three
\* categories apply (action, reference and nested), filed as action, and
\* one to which two apply (reference and nested), filed as reference.
C4_Witness ==
    /\ pc = "parsed"
    /\ \E op \in Operations :
          LET info == identify_entity_type(op[1])
          IN  info.is_action /\ info.is_reference /\ info.is_nested
              /\ FiledIn("actions", op) # {}
    /\ \E op \in Operations :
          LET info == identify_entity_type(op[1])
          IN  ~info.is_action /\ ~info.is_function /\ info.is_reference /\ info.is_nested
              /\ FiledIn("reference_entities", op) # {}

\* the specification body resolve_ref reads: what the openapi_spec key of
\* the document holds when it has one, the document itself otherwise
RefBody == IF "openapi_spec" \in DOMAIN ref_doc.items THEN ref_doc.items["openapi_spec"] ELSE ref_doc

\* the segments of the pointer after its leading marker
RefParts == IF StartsWith(ref, "#/") THEN Split(SubSeq(ref, 3, Len(ref)), "/") ELSE <<>>

\* C5: resolve_ref returns a map for every document and every pointer
\* string; it returns the node the pointer addresses when the pointer starts
\* with the marker, every segment is a present key of a map and the node
\* reached is itself a map, and the empty map in every other case.
C5_ResolveRefTotal ==
    pc = "resolved" =>
        LET node[k \in 0..Len(RefParts)] ==
                IF k = 0 THEN Some(RefBody)
                ELSE LET up == node[k - 1]
                     IN  IF up # None /\ up[1].kind = "map" /\ RefParts[k] \in DOMAIN up[1].items
                         THEN Some(up[1].items[RefParts[k]])
                         ELSE None
            target == node[Len(RefParts)]
            addressed == StartsWith(ref, "#/") /\ target # None /\ target[1].kind = "map"
        IN  /\ ref_result.kind = "map"
            /\ IF addressed THEN ref_result = target[1] ELSE ref_result = EmptyMap

\* C5 witness: a pointer of two segments or more resolved inside the
\* openapi_spec wrapper to a map that is not empty.
C5_Witness ==
    /\ pc = "resolved"
    /\ "openapi_spec" \in DOMAIN ref_doc.items
    /\ Len(RefParts) >= 2
    /\ ref_result # EmptyMap

\* the paths in increasing order of their text (the keys of a JSON object
\* are distinct): one fixed declaration order for every permutation of
\* the same paths
CanonicalOrder(paths) ==
    CHOOSE ordered \in
        {[k \in 1..Len(paths) |-> paths[CHOOSE i \in 1..Len(paths) : before[i] = k - 1]] :
           before \in {[i \in 1..Len(paths) |->
                          Cardinality({j \in 1..Len(paths) :
                                         StrLess(paths[j].path, paths[i].path)})]}} : TRUE

\* the names of a catalog, top-level and nested
CatalogNamesOf(simp, p2n) ==
    LET top == InVisitOrder(simp)
    IN  {top[i].name : i \in 1..Len(top)}
        \cup UNION {UNION {{p2n[k].buckets[v][j].name : j \in 1..Len(p2n[k].buckets[v])} :
                              v \in VerbSet} : k \in Attached(simp, p2n)}

\* the names of a catalog as generate_simplified_output returns it
NamesOfCatalog(catalog) == CatalogNamesOf(catalog.simplified, catalog.parent_to_nested)

\* the names of the catalog generated from the paths of the document
\* declared in canonical order
CanonicalNames ==
    Strict(NamesOfCatalog,
           Strict(generate_simplified_output,
                  Strict(parse_openapi_spec, [spec EXCEPT !.paths = CanonicalOrder(spec.paths)])))

\* C7: the set of final names of the catalog, top-level and nested, does not
\* depend on the declaration order of the paths: it is the set of names of
\* the catalog generated from the same paths in canonical order.
C7_NamesStableUnderReordering ==
    Generated => CatalogNamesOf(simplified, parent_to_nested) = CanonicalNames

\* C7 witness: a generated catalog of a document whose paths are not
\* declared in canonical order and in which the duplicate resolver renamed
\* an entry.
C7_Witness ==
    /\ Generated
    /\ spec.paths # CanonicalOrder(spec.paths)
    /\ \E name \in CatalogNamesOf(simplified, parent_to_nested) : Contains(name, " - ")

\* the OrderSet scenario: the document declares GET and PATCH
\* /OrderSet(OrderNo), GET /OrderSet and GET /OrderSet(OrderNo)/Lines, the
\* path parameter OrderNo declared, and nothing else
OrderScenario ==
    {spec.paths[i] : i \in 1..Len(spec.paths)} = {PoolOrder[1], PoolOrder[2], PoolOrder[3]}

\* the names of the top-level entries of an operation
TopNames(verb, path) ==
    {TopEntry(n).name : n \in {n \in TopNodes : /\ TopEntry(n).method = verb
                                                /\ TopEntry(n).url = parsed.api_info.base_url \o path}}

\* the (path, verb) pairs of the records of an entry of a category map
RecordsOf(entry) == {<<entry.apis[i].path, entry.apis[i].method>> : i \in 1..Len(entry.apis)}

\* the statement of the OrderSet scenario for an entity name and its
\* readable form
OrderScenarioOutcome(entity, readable) ==
    /\ Len(parsed.entities) = 1
    /\ parsed.entities[1].key = entity
    /\ RecordsOf(parsed.entities[1]) =
          {<<"/OrderSet(OrderNo)", "GET">>, <<"/OrderSet", "GET">>, <<"/OrderSet(OrderNo)", "PATCH">>}
    /\ Len(parsed.nested_entities) = 1
    /\ parsed.nested_entities[1].parent_entity = entity
    /\ parsed.nested_entities[1].nested_entity = "Lines"
    /\ RecordsOf(parsed.nested_entities[1]) = {<<"/OrderSet(OrderNo)/Lines", "GET">>}
    /\ parsed.reference_entities = <<>> /\ parsed.actions = <<>> /\ parsed.functions = <<>>
    /\ Cardinality(TopNodes) = 3
    /\ TopNames("GET", "/OrderSet(OrderNo)") = {"Get " \o readable \o " by OrderNo"}
    /\ TopNames("GET", "/OrderSet") = {"List " \o readable}
    /\ TopNames("PATCH", "/OrderSet(OrderNo)") = {"Update " \o readable \o " by OrderNo"}

\* C8 (as claimed): in the OrderSet scenario the first three operations are
\* primary-entity operations of entity Order, the fourth a nested-entity
\* operation with parent Order and child Lines, and the top-level names are
\* Get Order by OrderNo, List Order and Update Order by OrderNo.
C8_OrderScenarioAsClaimed ==
    (Generated /\ OrderScenario) => OrderScenarioOutcome("Order", "Order")

\* C8 (amended): in the OrderSet scenario the first three operations are
\* primary-entity operations of entity OrderSet, the fourth a nested-entity
\* operation with parent OrderSet and child Lines, and the top-level names
\* are Get Order Set by OrderNo, List Order Set and Update Order Set by
\* OrderNo.
C8_OrderScenario ==
    (Generated /\ OrderScenario) => OrderScenarioOutcome("OrderSet", "Order Set")

\* C8 witness: the catalog generated for the OrderSet scenario, with its
\* three top-level entries.
C8_Witness ==
    /\ Generated
    /\ OrderScenario
    /\ Len(simplified["GET"]) = 2
    /\ Len(simplified["PATCH"]) = 1

\* C9 (as claimed): in the OrderSet scenario the nested operation
\* GET /OrderSet(OrderNo)/Lines is in the nested GET list of the top-level
\* entry named Get Order by OrderNo, under the name Get Order Lines by
\* OrderNo.
C9_NestedLinesAsClaimed ==
    (Generated /\ OrderScenario) =>
        \E n \in NestedNodes :
            /\ TopEntry(<<n[1], n[2]>>).name = "Get Order by OrderNo"
            /\ n[3] = "GET"
            /\ NestedEntry(n).url = parsed.api_info.base_url \o "/OrderSet(OrderNo)/Lines"
            /\ NestedEntry(n).name = "Get Order Lines by OrderNo"

\* C10 (as claimed): whatever the base URL, two entries of a verb list that
\* are both named Calculate, one with first path segment OrderASet and the
\* other OrderBSet, are named Order A - Calculate and Order B - Calculate
\* after the first pass of resolve_duplicate_names.
C10_CalculatePrefixesAsClaimed ==
    pc \in {"parsed", "generated"} =>
        LET base_url == parsed.api_info.base_url
            p2n == BuildParentToNested(<<>>, base_url, parsed.nested_entities)
            collected == CollectTopLevel(parsed, p2n)
        IN  \A v \in VerbSet :
              LET apis == collected[v]
                  renamed == FirstPass(apis)
              IN  \A i, j \in 1..Len(apis) :
                     ( /\ apis[i].name = "Calculate"
                       /\ apis[j].name = "Calculate"
                       /\ StartsWith(apis[i].url, base_url \o "/OrderASet/")
                       /\ StartsWith(apis[j].url, base_url \o "/OrderBSet/") )
                     => /\ renamed[i].name = "Order A - Calculate"
                        /\ renamed[j].name = "Order B - Calculate"

-----------------------------------------------------------------------------
(* The catalog file and the options index.                                 *)

Written == pc = "written"

Indexed == pc = "indexed"

\* the catalog file as it was written, before process_options read it
FileBeforeIndexing == JsonDump(simplified, parent_to_nested)

\* the nested nodes of an entry of the catalog file in nested-verb order,
\* each with the verb of the list it is in
NestedFileNodes(entry) ==
    IF entry.nested_entities = None THEN <<>>
    ELSE Concat([vi \in 1..Len(Verbs) |->
                   [j \in 1..Len(entry.nested_entities[1][Verbs[vi]]) |->
                      [verb |-> Verbs[vi], node |-> entry.nested_entities[1][Verbs[vi]][j]]]])

\* the nested triples of an item of the options index
TriplesOf(item) == IF item.nested_entities = None THEN <<>> ELSE item.nested_entities[1]

\* the groups of the options index
IndexGroups == options_file[1].entities

\* C11 (as claimed): every id of the options index, of a top-level item or
\* of a nested triple, is the id that the corresponding node of the catalog
\* file carried before process_options ran.
C11_IndexInventsNoId ==
    Indexed =>
        \A g \in 1..Len(IndexGroups) :
            LET group == IndexGroups[g]
            IN  \A k \in 1..Len(group.items) :
                   LET node == FileBeforeIndexing[group.method][k]
                   IN  /\ group.items[k].id = node.id
                       /\ \A j \in 1..Len(TriplesOf(group.items[k])) :
                              TriplesOf(group.items[k])[j].id = NestedFileNodes(node)[j].node.id

\* the verbs whose list in the catalog file is not empty, in verb order
NonEmptyVerbs(data) == SelectSeq(Verbs, LAMBDA v : data[v] # <<>>)

\* C12: after process_options the options index and the catalog file agree
\* node for node: the groups are the non-empty verbs in the order GET, POST,
\* PATCH, PUT, DELETE, the items of a group are the entries of the verb list
\* in order with the same name and id, and the triples of an item are the
\* nested nodes of the entry in nested-verb order with the same method, name
\* and id.
C12_IndexAgreesWithCatalog ==
    Indexed =>
        /\ [g \in 1..Len(IndexGroups) |-> IndexGroups[g].method] = NonEmptyVerbs(catalog_file[1])
        /\ \A g \in 1..Len(IndexGroups) :
              LET group == IndexGroups[g]
                  bucket == catalog_file[1][group.method]
              IN  /\ Len(group.items) = Len(bucket)
                  /\ \A k \in 1..Len(bucket) :
                        /\ group.items[k].name = bucket[k].name
                        /\ group.items[k].id = bucket[k].id
                        /\ TriplesOf(group.items[k]) =
                              [j \in 1..Len(NestedFileNodes(bucket[k])) |->
                                 [method |-> NestedFileNodes(bucket[k])[j].node.method,
                                  name |-> NestedFileNodes(bucket[k])[j].node.name,
                                  id |-> NestedFileNodes(bucket[k])[j].node.id]]
                        /\ \A j \in 1..Len(NestedFileNodes(bucket[k])) :
                              NestedFileNodes(bucket[k])[j].node.method =
                                  NestedFileNodes(bucket[k])[j].verb

\* C12 witness: an index of two groups or more in which an item has nested
\* triples of two verbs.
C12_Witness ==
    /\ Indexed
    /\ Len(IndexGroups) >= 2
    /\ \E g \in 1..Len(IndexGroups) : \E k \in 1..Len(IndexGroups[g].items) :
          \E i, j \in 1..Len(TriplesOf(IndexGroups[g].items[k])) :
             TriplesOf(IndexGroups[g].items[k])[i].method #
                 TriplesOf(IndexGroups[g].items[k])[j].method

-----------------------------------------------------------------------------
(* Batch mode.                                                             *)

Done == pc = "done"

\* the input files in the order step 1 takes them
InputFiles == Sorted(GlobJson(data_dir))

\* the catalog files in the order step 2 takes them
CatalogFiles == Sorted(GlobJson(parsed_data_dir))

\* the files of the lines of an event, in the order they were printed
FilesLogged(event) ==
    LET lines == SelectSeq(log, LAMBDA l : l.event = event)
    IN  [i \in 1..Len(lines) |-> lines[i].file]

\* the transformation and the write of an input file succeed
Step1Succeeds(filename) ==
    /\ ~ParseRaises(data_dir[filename])
    /\ <<"parsed_data", get_output_filename(filename)>> \notin read_only

\* the index generation of a catalog file succeeds
Step2Succeeds(filename) == ~ProcessOptionsRaises(filename)

\* C13: a file that raises does not end the batch. When step 1 has
\* returned, every input file has been attempted, in sorted order, and
\* parsed_files holds exactly the files whose transformation and write
\* succeeded; when step 2 has returned, every catalog file has been
\* attempted and options_files holds exactly those whose index generation
\* succeeded.
C13_BatchSurvivesFailures ==
    /\ pc \in {"step2", "done"} =>
          /\ FilesLogged("Parsing") = InputFiles
          /\ [i \in 1..Len(parsed_files) |-> parsed_files[i].input] =
                 SelectSeq(InputFiles, Step1Succeeds)
    /\ (Done /\ parsed_files # <<>>) =>
          /\ FilesLogged("Processing") = CatalogFiles
          /\ [i \in 1..Len(options_files) |-> options_files[i].input] =
                 SelectSeq(CatalogFiles, Step2Succeeds)

\* C13 witness: a finished run in which a file of step 1 raised and a later
\* one was parsed, and a file of step 2 raised and a later one was indexed.
C13_Witness ==
    /\ Done
    /\ \E i, j \in 1..Len(InputFiles) :
          /\ i < j
          /\ ~Step1Succeeds(InputFiles[i])
          /\ Step1Succeeds(InputFiles[j])
    /\ \E i, j \in 1..Len(CatalogFiles) :
          /\ i < j
          /\ ~Step2Succeeds(CatalogFiles[i])
          /\ \E k \in 1..Len(options_files) : options_files[k].input = CatalogFiles[j]

\* C14: in step 1 the parsed_data directory changes only by the write of
\* the catalog file of the current input file, after parse_openapi_spec and
\* generate_simplified_output have returned for it; the iteration of a file
\* whose transformation raises leaves the directory as it was.
C14_WriteAfterTransformation ==
    [][ /\ (pc \in {"step1", "step1_parsed", "step1_generated"}
              /\ parsed_data_dir' # parsed_data_dir) =>
            /\ pc = "step1_generated"
            /\ ~ParseRaises(data_dir[Head(todo)])
            /\ parsed = Strict(parse_openapi_spec, data_dir[Head(todo)][1])
            /\ simplified = Strict(generate_simplified_output, parsed).simplified
            /\ DOMAIN parsed_data_dir' = DOMAIN parsed_data_dir \cup {get_output_filename(Head(todo))}
            /\ \A n \in DOMAIN parsed_data_dir \ {get_output_filename(Head(todo))} :
                  parsed_data_dir'[n] = parsed_data_dir[n]
        /\ (pc = "step1" /\ todo # <<>> /\ ParseRaises(data_dir[Head(todo)])) =>
            parsed_data_dir' = parsed_data_dir ]_vars

\* C14 witness: step 1 has written the catalog file of one input file and
\* has skipped another whose transformation raised, for which parsed_data
\* holds no file.
C14_Witness ==
    /\ pc = "step1"
    /\ parsed_files # <<>>
    /\ \E i \in 1..Len(log) :
          /\ log[i].event = "ERROR"
          /\ ParseRaises(data_dir[log[i].file])
          /\ get_output_filename(log[i].file) \notin DOMAIN parsed_data_dir

\* the content is a document without info.title
LacksTitle(content) ==
    /\ content # None
    /\ \/ content[1].info = None
       \/ content[1].info[1].title = None

\* C15 (as claimed): an input file whose document lacks info.title is
\* skipped by the batch: it is not in parsed_files, and no catalog file and
\* no options file is produced for it.
C15_UntitledDocumentSkipped ==
    Done =>
        \A f \in GlobJson(data_dir) :
            LacksTitle(data_dir[f]) =>
                /\ \A i \in 1..Len(parsed_files) : parsed_files[i].input # f
                /\ (\A g \in GlobJson(data_dir) \ {f} :
                        get_output_filename(g) # get_output_filename(f)) =>
                      /\ get_output_filename(f) \notin DOMAIN parsed_data_dir
                      /\ OptionsFilename(get_output_filename(f)) \notin DOMAIN options_dir

\* C16: stamping is never interleaved with classification. When
\* process_options is attempted on a catalog file, step 1 has returned:
\* every input file has been attempted before it, and no input file is
\* parsed after it; a catalog file written by the run was written before
\* process_options is attempted on it.
C16_StampAfterClassification ==
    \A i \in 1..Len(log) :
        log[i].event = "Processing" =>
            /\ pc \in {"step2", "done"}
            /\ \A f \in GlobJson(data_dir) : \E j \in 1..(i - 1) : log[j] = Line("Parsing", f)
            /\ \A j \in 1..Len(log) : log[j].event = "Parsing" => j < i
            /\ (\E k \in 1..Len(parsed_files) : parsed_files[k].filename = log[i].file) =>
                  \E j \in 1..(i - 1) : log[j] = Line("->", log[i].file)

\* C16 witness: a finished run that parsed two input files and stamped two
\* catalog files.
C16_Witness ==
    /\ Done
    /\ Len(parsed_files) >= 2
    /\ Len(options_files) >= 2

\* the catalog file and the options file that the run produces for a
\* document on its own
OutputOf(document) ==
    LET written == Strict(generate_simplified_output, Strict(parse_openapi_spec, document))
    IN  Strict(process_options, JsonDump(written.simplified, written.parent_to_nested))

\* C17 (as claimed): when every input file transforms and every catalog
\* file is indexed, the run has written one catalog file and one options
\* file per input file, each the output of its own input.
C17_OneCatalogAndIndexPerInput ==
    (/\ Done
     /\ \A f \in GlobJson(data_dir) : Step1Succeeds(f)
     /\ \A n \in GlobJson(parsed_data_dir) : Step2Succeeds(n)) =>
        /\ Cardinality({parsed_files[i].filename : i \in 1..Len(parsed_files)}) =
              Cardinality(GlobJson(data_dir))
        /\ Cardinality({options_files[i].output : i \in 1..Len(options_files)}) =
              Cardinality(GlobJson(data_dir))
        /\ \A f \in GlobJson(data_dir) :
              /\ parsed_data_dir[get_output_filename(f)] = Some(OutputOf(data_dir[f][1]).data)
              /\ options_dir[OptionsFilename(get_output_filename(f))] =
                    Some(OutputOf(data_dir[f][1]).options)

-----------------------------------------------------------------------------
(* The duplicate resolver on the buckets of the catalog.                   *)

\* parent_to_nested as the nested-entity loop builds it, before any
\* resolution
BuiltNested == BuildParentToNested(<<>>, parsed.api_info.base_url, parsed.nested_entities)

\* the top-level verb lists before resolution
CollectedTopLevel == CollectTopLevel(parsed, BuiltNested)

\* the verb lists of the collected top-level entries and of the built
\* nested dicts
BucketsOf(collected, built) ==
    {collected[v] : v \in VerbSet}
        \cup UNION {{built[k].buckets[v] : v \in VerbSet} : k \in 1..Len(built)}

\* the buckets resolve_duplicate_names is given: the top-level verb lists
\* and the nested verb lists, with their synthesized names
BucketsBeforeResolution ==
    UNION {BucketsOf(CollectTopLevel(parsed, built), built) : built \in {BuiltNested}}

\* the path of an operation: its url without the base url
PathOfUrl(url) == SubSeq(url, Len(parsed.api_info.base_url) + 1, Len(url))

\* the readable form of the first segment of a path, a trailing Set stripped
PrefixOfFirstSegment(path) ==
    LET segment == BeforeParenOrSlash(SubSeq(path, 2, Len(path)))
    IN  camel_to_readable(IF EndsWith(segment, "Set")
                          THEN SubSeq(segment, 1, Len(segment) - 3)
                          ELSE segment)

\* C18 (as claimed): in every bucket, the first pass renames every entry
\* whose name occurs more than once to "{Prefix} - {Name}", Prefix being the
\* readable form of the first path segment of the operation with a trailing
\* Set stripped, whatever the base url of the operation.
C18_FirstPassPrefixAsClaimed ==
    pc = "parsed" =>
        \A apis \in BucketsBeforeResolution :
            \A i \in 1..Len(apis) :
                apis[i].name \in Duplicates(apis) =>
                    FirstPass(apis)[i].name =
                        PrefixOfFirstSegment(PathOfUrl(apis[i].url)) \o " - " \o apis[i].name

\* the name the two passes leave to entry i of a bucket: its first-pass
\* name, with its second path parameter appended when that name is still
\* shared and the entry has a second path parameter
NameAfterTwoPasses(apis, i) ==
    LET first == FirstPass(apis)
    IN  IF /\ \E j \in 1..Len(first) : j # i /\ first[j].name = first[i].name
           /\ Len(apis[i].path_params) >= 2
        THEN first[i].name \o ", " \o apis[i].path_params[2].key
        ELSE first[i].name

\* C19: resolve_duplicate_names leaves every entry of a bucket its
\* first-pass name, with ", {second path parameter}" appended exactly when
\* that name is still shared after the first pass and the entry has a second
\* path parameter; nothing more is done, and the top-level names of the
\* generated catalog are these names.
C19_SecondPassAppendsSecondParam ==
    Generated =>
        \A built \in {BuiltNested} :
            \A collected \in {CollectTopLevel(parsed, built)} :
                /\ \A apis \in BucketsOf(collected, built) :
                      \A resolved \in {resolve_duplicate_names(apis)} :
                          /\ Len(resolved) = Len(apis)
                          /\ \A i \in 1..Len(apis) :
                                resolved[i].name = NameAfterTwoPasses(apis, i)
                /\ \A n \in TopNodes :
                      \E i \in 1..Len(collected[n[1]]) :
                          /\ collected[n[1]][i].url = TopEntry(n).url
                          /\ TopEntry(n).name = NameAfterTwoPasses(collected[n[1]], i)

\* C19 witness: a generated catalog with two top-level entries of one verb
\* that shared a name after the first pass, one renamed with its second path
\* parameter and the other, which has a single path parameter, left with
\* its first-pass name.
C19_Witness ==
    /\ Generated
    /\ \E n, m \in TopNodes :
          /\ n[1] = m[1]
          /\ Len(TopEntry(n).path_params) >= 2
          /\ Len(TopEntry(m).path_params) < 2
          /\ Contains(TopEntry(m).name, " - ")
          /\ TopEntry(n).name = TopEntry(m).name \o ", " \o TopEntry(n).path_params[2].key

\* the names of a list of entries, in order
NamesOf(apis) == [j \in 1..Len(apis) |-> apis[j].name]

\* C20 (as claimed): in the generated catalog the names of every nested
\* verb list are those of the list as it was built, resolved once by
\* resolve_duplicate_names and sorted, however many top-level entries the
\* parent entity has.
C20_NestedResolvedOnce ==
    Generated =>
        \A k \in Attached(simplified, parent_to_nested) :
            \A v \in VerbSet :
                NamesOf(parent_to_nested[k].buckets[v]) =
                    NamesOf(SortByName(resolve_duplicate_names(
                                Lookup(BuiltNested, parent_to_nested[k].key).buckets[v])))

-----------------------------------------------------------------------------
(* The shape of the catalog: what is top-level and what is nested.         *)

\* the operation a catalog entry stands for: the path of its url and its verb
OperationOf(entry) == <<PathOfUrl(entry.url), entry.method>>

\* the places of a top-level verb list that hold the entry of an operation
TopPlaces(v, op) == {i \in 1..Len(simplified[v]) : OperationOf(simplified[v][i]) = op}

\* the categories whose operations the collecting loops put in the top level
TopLevelCategories == {"entities", "reference_entities", "actions", "functions"}

\* C21: in the generated catalog the top-level list of a verb holds exactly
\* one entry for each operation of that verb filed under primary entities,
\* reference entities, actions or functions, none for an operation filed
\* under nested entities, and nothing else; the entries inside the
\* nested_entities of a top-level entry are operations filed under nested
\* entities.
C21_TopLevelIsUnionOfTopCategories ==
    Generated =>
        /\ \A op \in Operations :
              /\ (\E c \in TopLevelCategories : FiledIn(c, op) # {})
                    => Cardinality(TopPlaces(op[2], op)) = 1
              /\ FiledIn("nested_entities", op) # {} => TopPlaces(op[2], op) = {}
        /\ \A v \in VerbSet : \A i \in 1..Len(simplified[v]) :
              /\ simplified[v][i].method = v
              /\ OperationOf(simplified[v][i]) \in Operations
        /\ \A k \in Attached(simplified, parent_to_nested) : \A v \in VerbSet :
              \A j \in 1..Len(parent_to_nested[k].buckets[v]) :
                 /\ parent_to_nested[k].buckets[v][j].method = v
                 /\ FiledIn("nested_entities", OperationOf(parent_to_nested[k].buckets[v][j])) # {}

\* C21 witness: a generated catalog whose top level holds operations of a
\* primary entity, of a reference entity, of an action and of a function,
\* while a nested operation hangs off a top-level entry.
C21_Witness ==
    /\ Generated
    /\ \A c \in TopLevelCategories :
          \E op \in Operations : FiledIn(c, op) # {} /\ TopPlaces(op[2], op) # {}
    /\ \E k \in Attached(simplified, parent_to_nested) : \E v \in VerbSet :
          parent_to_nested[k].buckets[v] # <<>>

\* the primary entities under which an operation is filed
PrimaryEntitiesOf(op) == {parsed.entities[f[2]].key : f \in FiledIn("entities", op)}

\* the entities recorded as parent of at least one nested operation
RecordedParents ==
    {parsed.nested_entities[k].parent_entity :
        k \in {k \in 1..Len(parsed.nested_entities) : parsed.nested_entities[k].apis # <<>>}}

\* C22: in the generated catalog a top-level entry carries nested_entities
\* exactly when its operation is filed under a primary entity that is the
\* recorded parent of a nested operation; the nested_entities it carries
\* have a non-empty verb list; the entries of reference entities, actions
\* and functions carry none.
C22_NestedOnlyOnParents ==
    Generated =>
        \A n \in TopNodes :
            \A entry \in {TopEntry(n)} :
                /\ entry.nested_entities # None
                      <=> PrimaryEntitiesOf(OperationOf(entry)) \cap RecordedParents # {}
                /\ entry.nested_entities # None =>
                      \E v \in VerbSet : NestedOf(parent_to_nested, entry)[v] # <<>>
                /\ (\E c \in {"reference_entities", "actions", "functions"} :
                       FiledIn(c, OperationOf(entry)) # {})
                      => entry.nested_entities = None

\* C22 witness: a generated catalog in which an entry of a primary entity
\* carries nested_entities, while the entry of a reference entity whose
\* path has a child segment carries none and a recorded parent has no
\* operation of its own.
C22_Witness ==
    /\ Generated
    /\ \E n \in TopNodes : TopEntry(n).nested_entities # None
    /\ \E n \in TopNodes :
          /\ FiledIn("reference_entities", OperationOf(TopEntry(n))) # {}
          /\ identify_entity_type(OperationOf(TopEntry(n))[1]).is_nested
          /\ TopEntry(n).nested_entities = None
    /\ \E p \in RecordedParents : ~HasKey(parsed.entities, p)

\* the number of segments of a path
SegmentCount(path) == Len(Split(path, "/")) - 1

\* C23: the catalog has one nesting level at most: no entry of a nested
\* verb list carries nested_entities, in the generated catalog and in the
\* catalog file, whatever the number of segments of the paths.
C23_OneNestingLevel ==
    /\ Generated =>
          \A k \in 1..Len(parent_to_nested) : \A v \in VerbSet :
             \A j \in 1..Len(parent_to_nested[k].buckets[v]) :
                parent_to_nested[k].buckets[v][j].nested_entities = None
    /\ (Written \/ Indexed) =>
          \A v \in VerbSet : \A i \in 1..Len(catalog_file[1][v]) :
             \A nested \in {NestedFileNodes(catalog_file[1][v][i])} :
                \A j \in 1..Len(nested) : nested[j].node.nested_entities = None

\* C23 witness: a catalog file in which a top-level entry holds the nested
\* entry of a path of three segments.
C23_Witness ==
    /\ Written
    /\ \E v \in VerbSet : \E i \in 1..Len(catalog_file[1][v]) :
          \E j \in 1..Len(NestedFileNodes(catalog_file[1][v][i])) :
             SegmentCount(PathOfUrl(NestedFileNodes(catalog_file[1][v][i])[j].node.url)) >= 3

-----------------------------------------------------------------------------
(* The classifier and the aggregator on the shaped paths.                  *)

Parsed == pc = "parsed"

\* the segments of a path: the parts after the leading slash
Segments(path) == Tail(Split(path, "/"))

\* the name of a segment: the segment without its parameter list
SegmentName(segment) == Split(segment, "(")[1]

\* the places of the segments that have a parameter list and are not the
\* last segment
InnerParameterized(path) ==
    {i \in 1..(Len(Segments(path)) - 1) : Contains(Segments(path)[i], "(")}

\* the first segment that has a parameter list and is not the last one
FirstInnerParameterized(path) ==
    Segments(path)[CHOOSE i \in InnerParameterized(path) :
                      \A j \in InnerParameterized(path) : i <= j]

\* C24 (as claimed): for every path the classifier flags as nested, the
\* parent entity is the name of the first segment that has a parameter list
\* and is not the last segment, and the child entity is the name of the
\* last segment, also when that segment is not the first of the path; the
\* nested records of the aggregator carry that parent and that child.
C24_ParentIsFirstParameterizedSegment ==
    Parsed =>
        /\ \A op \in Operations :
              \A info \in {identify_entity_type(op[1])} :
                 info.is_nested =>
                    /\ info.parent_entity = Some(SegmentName(FirstInnerParameterized(op[1])))
                    /\ info.entity_name = SegmentName(Last(Segments(op[1])))
        /\ \A k \in 1..Len(parsed.nested_entities) :
              \A record \in {parsed.nested_entities[k]} :
                 /\ record.parent_entity =
                       SegmentName(FirstInnerParameterized(record.full_path_pattern))
                 /\ record.nested_entity = SegmentName(Last(Segments(record.full_path_pattern)))

\* the name of an operation made of an action name: its readable form,
\* with "by" and the first path parameter when the entry has path parameters
ActionPhrase(action_name, path_params) ==
    camel_to_readable(action_name)
        \o (IF path_params # <<>> THEN " by " \o path_params[1].key ELSE "")

\* C25 (as claimed): for every path filed as action or as function the
\* classifier's output carries as action name what extract_action_name_from_path
\* makes of the path, the trailing identifier after the last underscore of
\* the namespaced segment, and when there is such an identifier the catalog
\* name of the operation is its readable form, with "by" and the first path
\* parameter appended when the operation has path parameters.
C25_ActionNameIsTrailingIdentifier ==
    Generated =>
        \A op \in Operations :
            \A info \in {identify_entity_type(op[1])} :
                (info.is_action \/ info.is_function) =>
                    \A action_name \in {extract_action_name_from_path(op[1])} :
                        /\ info.action_name = action_name
                        /\ Truthy(action_name) =>
                              \A i \in TopPlaces(op[2], op) :
                                 simplified[op[2]][i].name =
                                     ActionPhrase(action_name[1], simplified[op[2]][i].path_params)

\* the category counters of the summary, each with the map it is said to count
CategoryCounters ==
    { <<"total_entities", "entities">>,
      <<"total_nested_entities", "nested_entities">>,
      <<"total_reference_entities", "reference_entities">>,
      <<"total_actions", "actions">>,
      <<"total_functions", "functions">> }

\* the sum of the per-verb counts
RECURSIVE SumOfCounts(_, _)
SumOfCounts(counts, vi) ==
    IF vi > Len(Verbs) THEN 0 ELSE counts[Verbs[vi]] + SumOfCounts(counts, vi + 1)

\* C26 (as claimed): after aggregation total_endpoints is the number of
\* (path, verb) operations and the sum of the per-verb counts, and each of
\* the five category counters is the number of keys of its category map.
C26_CountersCountKeys ==
    Parsed =>
        /\ parsed.summary.total_endpoints = Cardinality(Operations)
        /\ parsed.summary.total_endpoints = SumOfCounts(parsed.summary.methods_count, 1)
        /\ \A c \in CategoryCounters : parsed.summary[c[1]] = Len(parsed[c[2]])

-----------------------------------------------------------------------------
(* The names of the operations that have no action name.                   *)

\* the readable entity label, the nested resource folded in when present
EntityLabel(entity_name, nested_resource) ==
    camel_to_readable(entity_name)
        \o (IF Truthy(nested_resource) THEN " " \o camel_to_readable(nested_resource[1]) ELSE "")

\* "by" and the name of the first path parameter, when there is one
ByFirstParam(path_params) ==
    IF path_params # <<>> THEN " by " \o path_params[1].key ELSE ""

\* the name the verb gives to an operation on the entity label
VerbPhrase(method, label, path_params) ==
    CASE method = "GET" -> IF path_params = <<>> THEN "List " \o label
                           ELSE "Get " \o label \o ByFirstParam(path_params)
      [] method = "POST" -> "Create " \o label
      [] method = "PATCH" -> "Update " \o label \o ByFirstParam(path_params)
      [] method = "PUT" -> "Replace " \o label \o ByFirstParam(path_params)
      [] method = "DELETE" -> "Delete " \o label \o ByFirstParam(path_params)
      [] OTHER -> label

\* the entry stands for an operation whose path yields no action name
NoActionName(entry) == ~Truthy(extract_action_name_from_path(PathOfUrl(entry.url)))

\* C27: in the catalog generated from a document of one path, an entry
\* whose path yields no action name is named by its verb: GET "List
\* {Entity}" without path parameters and "Get {Entity} by {first}" with
\* them, POST "Create {Entity}" either way, PATCH "Update {Entity}", PUT
\* "Replace {Entity}" and DELETE "Delete {Entity}", each followed by
\* " by {first}" exactly when there are path parameters; {Entity} is the
\* readable name of the entity (of the child, for a nested entry) with the
\* nested resource of the path folded in.
C27_VerbBasedNames ==
    Generated =>
        /\ \A n \in TopNodes :
              \A entry \in {TopEntry(n)} :
                 NoActionName(entry) =>
                    entry.name =
                       VerbPhrase(entry.method,
                                  EntityLabel(extract_entity_name_from_path(PathOfUrl(entry.url)),
                                              extract_nested_resource_from_path(PathOfUrl(entry.url))),
                                  entry.path_params)
        /\ \A k \in 1..Len(parent_to_nested) : \A v \in VerbSet :
              \A j \in 1..Len(parent_to_nested[k].buckets[v]) :
                 \A entry \in {parent_to_nested[k].buckets[v][j]} :
                    NoActionName(entry) =>
                       entry.name =
                          VerbPhrase(entry.method,
                                     EntityLabel(identify_entity_type(PathOfUrl(entry.url)).entity_name,
                                                 extract_nested_resource_from_path(PathOfUrl(entry.url))),
                                     entry.path_params)

\* C27 witness: a generated catalog with a GET entry and a POST entry of a
\* path that has path parameters and a nested resource and yields no action
\* name.
C27_Witness ==
    /\ Generated
    /\ \E n, m \in TopNodes :
          /\ TopEntry(n).method = "GET" /\ TopEntry(m).method = "POST"
          /\ \A entry \in {TopEntry(n), TopEntry(m)} :
                /\ NoActionName(entry)
                /\ entry.path_params # <<>>
                /\ Truthy(extract_nested_resource_from_path(PathOfUrl(entry.url)))

-----------------------------------------------------------------------------
(* The operations the catalog holds.                                       *)

\* the operations that have an entry in the catalog, top-level or inside
\* the nested_entities of a top-level entry
CatalogOperations ==
    {OperationOf(TopEntry(n)) : n \in TopNodes}
        \cup UNION {UNION {{OperationOf(parent_to_nested[k].buckets[v][j]) :
                              j \in 1..Len(parent_to_nested[k].buckets[v])} : v \in VerbSet} :
                      k \in Attached(simplified, parent_to_nested)}

\* C28 (as claimed): every operation of the document has an entry in the
\* generated catalog, top-level or nested, with its url and its verb, also
\* a nested operation whose parent entity has no operation of its own.
C28_EveryOperationInCatalog ==
    Generated => \A op \in Operations : op \in CatalogOperations

-----------------------------------------------------------------------------
(* What resolve_duplicate_names leaves alone.                              *)

\* the places of a list whose entry has a name no other entry of the list has
UniquelyNamed(apis) == {i \in 1..Len(apis) : apis[i].name \notin Duplicates(apis)}

\* the list holds an entry of this url under this name
HoldsNamed(apis, url, name) ==
    \E j \in 1..Len(apis) : apis[j].url = url /\ apis[j].name = name

\* C29: resolve_duplicate_names returns the entries it was given, in the
\* same places and the same but for their names, and an entry whose name
\* was unique in the list keeps its name; in the generated catalog every
\* top-level list has as many entries as were collected, and an entry that
\* was uniquely named in its list, top-level or nested, carries that name.
C29_ResolverTouchesOnlyCollisions ==
    Generated =>
        \A built \in {BuiltNested} :
            \A collected \in {CollectTopLevel(parsed, built)} :
                /\ \A apis \in BucketsOf(collected, built) :
                      \A resolved \in {resolve_duplicate_names(apis)} :
                          /\ Len(resolved) = Len(apis)
                          /\ \A i \in 1..Len(apis) :
                                resolved[i] = [apis[i] EXCEPT !.name = resolved[i].name]
                          /\ \A i \in UniquelyNamed(apis) : resolved[i].name = apis[i].name
                /\ \A v \in VerbSet :
                      /\ Len(simplified[v]) = Len(collected[v])
                      /\ \A i \in UniquelyNamed(collected[v]) :
                            HoldsNamed(simplified[v], collected[v][i].url, collected[v][i].name)
                /\ \A k \in Attached(simplified, parent_to_nested) : \A v \in VerbSet :
                      \A apis \in {Lookup(built, parent_to_nested[k].key).buckets[v]} :
                          /\ Len(parent_to_nested[k].buckets[v]) = Len(apis)
                          /\ \A i \in UniquelyNamed(apis) :
                                HoldsNamed(parent_to_nested[k].buckets[v], apis[i].url, apis[i].name)

\* C29 witness: a generated catalog with a top-level list in which two
\* collected entries shared a name and were renamed while a third, named
\* like no other, kept its name.
C29_Witness ==
    /\ Generated
    /\ \E v \in VerbSet :
          /\ Duplicates(CollectedTopLevel[v]) # {}
          /\ \E i \in UniquelyNamed(CollectedTopLevel[v]) :
                HoldsNamed(simplified[v], CollectedTopLevel[v][i].url, CollectedTopLevel[v][i].name)
          /\ \E i \in 1..Len(CollectedTopLevel[v]) :
                ~HoldsNamed(simplified[v], CollectedTopLevel[v][i].url, CollectedTopLevel[v][i].name)

-----------------------------------------------------------------------------
(* The ids of an indexed catalog file.                                     *)

\* the ids of the entries of a list of a catalog file in the order
\* process_array meets them: every item, followed by the entries of its
\* nested lists, verb by verb, and theirs in turn, to any depth
RECURSIVE ArrayNodeIds(_)
ArrayNodeIds(arr) ==
    Concat([i \in 1..Len(arr) |->
              <<arr[i].id>>
                 \o (IF arr[i].nested_entities = None THEN <<>>
                     ELSE Concat([vi \in 1..Len(NestedIndexVerbs) |->
                                    ArrayNodeIds(arr[i].nested_entities[1][NestedIndexVerbs[vi]])]))])

\* the ids of the entry nodes of a catalog file, root verb by root verb
FileNodeIds(data) ==
    Concat([vi \in 1..Len(RootIndexVerbs) |-> ArrayNodeIds(data[RootIndexVerbs[vi]])])

\* C30: for every catalog file the batch has indexed, the ids of the entry
\* nodes of the file, top-level and nested under every parent, are pairwise
\* distinct and are exactly 1..M, M the total that process_options returned
\* and the number of entry nodes; process_options run again on the stamped
\* file writes back the same file and the same index and returns M.
C30_IndexerStampsDenseIds ==
    \A r \in {options_files[i] : i \in 1..Len(options_files)} :
        \A data \in {parsed_data_dir[r.input][1]} :
            /\ \A ids \in {FileNodeIds(data)} :
                  /\ Len(ids) = r.total_ids
                  /\ {ids[k] : k \in 1..Len(ids)} = 1..r.total_ids
                  /\ \A k1, k2 \in 1..Len(ids) : k1 # k2 => ids[k1] # ids[k2]
            /\ \A again \in {process_options(data)} :
                  /\ again.data = data
                  /\ again.options = options_dir[r.output][1]
                  /\ again.total_ids = r.total_ids

\* C30 witness: the batch has ended with two files indexed, one of them
\* with three top-level entries that each hold a copy of a nested entry.
C30_Witness ==
    /\ Done
    /\ Len(options_files) = 2
    /\ \E i \in 1..Len(options_files) :
          /\ options_files[i].total_ids >= 6
          /\ \A v \in {"GET", "PATCH"} :
                \A j \in 1..Len(parsed_data_dir[options_files[i].input][1][v]) :
                   NestedFileNodes(parsed_data_dir[options_files[i].input][1][v][j]) # <<>>

====
